---- MODULE Spec2Model ----
(***************************************************************************)
(* A model of the millikit storefront server and of the client's pricing   *)
(* helpers.  The specifications share the module's variables:              *)
(*   CartSpec      the cart routes of server/routes.ts over the storage    *)
(*                 layer (MemStorage or PostgreSQLStorage), one request    *)
(*                 at a time;                                              *)
(*   AddSpec       POST /api/cart requests in sequence, with the history   *)
(*                 of the last two requests;                               *)
(*   SessionSpec   GET and POST /api/cart in sequence, with the session-id *)
(*                 header of each request and of its response;             *)
(*   CartRaceSpec  POST /api/cart against PostgreSQL, where other requests *)
(*                 run between a request's lookup and its write;           *)
(*   AdminSpec     the admin session table, the isAdmin gate and the       *)
(*                 admin authentication routes;                            *)
(*   SearchSpec    searchProducts of both stores over a bounded catalogue; *)
(*   PriceSpec     the client's weight-price resolution and cart summary;  *)
(*   SummarySpec   calculateCartSummary over carts priced around the       *)
(*                 free-shipping threshold;                                *)
(*   ShopSpec      the catalogue, contact and admin product routes;        *)
(*   RetrySpec     one call of PostgreSQLStorage.executeWithRetry, and     *)
(*   RetryLiveSpec the same under weak fairness of the call's steps;       *)
(*   MethodSpec    one call of a PostgreSQLStorage method, with the        *)
(*                 queries its operation sends and the errors it catches;  *)
(*   LookupSpec    getCartItemWithProduct of both stores over small carts; *)
(*   DeleteProductSpec  a shopper's cart and summary while an admin        *)
(*                 deletes products;                                       *)
(*   DashSpec      the bulk actions of the admin Dashboard page;           *)
(*   MirrorSpec    CartProvider's cartItems against the cart routes.       *)
(* Each specification leaves the other parts' variables unchanged.         *)
(***************************************************************************)
EXTENDS Integers, FiniteSets, Sequences, TLC

VARIABLES
    storageKind,        \* "mem" (MemStorage) or "pg" (PostgreSQLStorage), fixed at startup
    cartItems,          \* the cart_items table / MemStorage.cartItems: a set of rows
    cartItemIdCounter,  \* MemStorage.cartItemIdCounter / the serial of cart_items.id
    sessionCounter,     \* how many cart session ids nanoid() has issued
    reqs,               \* POST /api/cart requests between their lookup and their write
    last,               \* history: the handler that answered last, and its status code
    trail,              \* history: the last two POST /api/cart requests served
    adminSessions,      \* routes.ts adminSessions: token -> AdminSession
    tokenCounter,       \* how many admin session tokens nanoid() has issued
    users,              \* the users table / MemStorage.users: id -> user
    pwSupplied,         \* history: some request has carried an admin password
    adminLast,          \* history: the admin route that answered last, and its answer
    products,           \* the products table / MemStorage.products: a set of rows
    query,              \* the text searchProducts is called with
    found,              \* what searchProducts returned
    shown,              \* ProductDetail: the selected weight and the price on display
    clientCart,         \* CartContext cartItems: the lines the client holds
    summary,            \* what calculateCartSummary returned
    productIdCounter,   \* MemStorage.productIdCounter / the serial of products.id
    slugAtCreation,     \* history: product id -> the slug its row was created with
    contacts,           \* the contacts table / MemStorage.contacts, in id order
    shopLast,           \* history: the product or contact route that answered last
    retryPc,            \* executeWithRetry: where the call stands
    retries,            \* executeWithRetry: the retries argument of the running call
    invocations,        \* history: how often the call has invoked its operation
    reinits,            \* history: how often the call has run initConnection
    waited,             \* history: the milliseconds the call has spent in its delays
    lastError,          \* executeWithRetry: the error caught last, and by which invocation
    outcome,            \* what the call returned or threw
    method,             \* the PostgreSQLStorage method the call is a call of
    innerRetries,       \* the retries argument of the wrapped call inside the operation
    queries,            \* history: how many queries the call has sent to the database
    swallowed,          \* history: the operation caught a failed query itself
    dashProducts,       \* admin Dashboard: the products state
    selectedProductIds, \* admin Dashboard: the ids ticked for a bulk action
    toast               \* admin Dashboard: the toast shown last, with the answers behind it

cartVars == <<storageKind, cartItems, cartItemIdCounter, sessionCounter, reqs>>

cartAll == <<cartItems, cartItemIdCounter, sessionCounter, reqs, last, trail>>
adminAll == <<adminSessions, tokenCounter, users, pwSupplied, adminLast>>
catalogAll == <<products, query, found>>
clientAll == <<shown, clientCart, summary>>
shopAll == <<productIdCounter, slugAtCreation, contacts, shopLast>>
retryAll == <<retryPc, retries, invocations, reinits, waited, lastError, outcome>>
methodAll == <<method, innerRetries, queries, swallowed>>
dashAll == <<dashProducts, selectedProductIds, toast>>

offCart == <<adminAll, catalogAll, clientAll, shopAll, retryAll, methodAll, dashAll>>
offServer == <<adminAll, catalogAll, shopAll, retryAll, methodAll, dashAll>>
offAdmin == <<cartAll, catalogAll, clientAll, shopAll, retryAll, methodAll, dashAll>>
offCatalog == <<storageKind, cartAll, adminAll, clientAll, shopAll, retryAll, methodAll, dashAll>>
offClient == <<storageKind, cartAll, adminAll, query, found, shopAll, retryAll, methodAll, dashAll>>
offShop == <<storageKind, cartAll, adminAll, query, found, clientAll, retryAll, methodAll, dashAll>>
offRetry == <<storageKind, cartAll, adminAll, catalogAll, clientAll, shopAll, methodAll, dashAll>>
offMethod == <<storageKind, cartAll, adminAll, catalogAll, clientAll, shopAll, dashAll>>
offDash == <<storageKind, cartAll, adminAll, query, found, clientAll, shopAll, retryAll, methodAll>>

vars ==
    <<storageKind, cartAll, adminAll, catalogAll, clientAll, shopAll, retryAll, methodAll,
      dashAll>>

(***************************************************************************)
(* Bounds of the model.                                                    *)
(***************************************************************************)
MaxCartItems == 2       \* cart rows ever inserted
MaxQuantity == 3        \* largest quantity of a row
MaxTokens == 2          \* admin session tokens ever issued
MaxQueryLen == 2        \* characters of a search text
MaxLineQuantity == 2    \* largest quantity the client adds at once

\* cart session ids nanoid() issues, in the order it issues them
SessionIds == {1, 2}

ProductIds == {1, 2}
BodyQuantities == {-1, 0, 1, 2}
RequestSlots == {1, 2}

(***************************************************************************)
(* Values.                                                                 *)
(***************************************************************************)
\* metaData texts a client can send: JSON.stringify({selectedWeight}) for
\* two labels (quotes left out of the model's text).
MetaStrings == {"{selectedWeight:500g}", "{selectedWeight:1kg}"}

\* undefined / null metaData of a row or of a call
NoMeta == "none"

\* undefined result of a lookup
NoItem == [id |-> 0]

\* what parseInt gives for a path segment that is not a number
NaN == -1

EmptyBody == [f \in {} |-> 0]

Has(rec, f) == f \in DOMAIN rec

NoAnswer == [op |-> "none", code |-> 0]

IdleReq == [phase |-> "idle"]

\* the predefined admin user of the MemStorage constructor
AdminUser == [username |-> "admin_millikit", password |-> "the_millikit",
              otpSecret |-> 0, otpEnabled |-> FALSE, isAdmin |-> TRUE]

(***************************************************************************)
(* Each part of the program at startup.                                    *)
(***************************************************************************)
CartIdle ==
    /\ cartItems = {}
    /\ cartItemIdCounter = 1
    /\ sessionCounter = 0
    /\ reqs = [r \in RequestSlots |-> IdleReq]
    /\ last = NoAnswer
    /\ trail = <<>>

AdminIdle ==
    /\ adminSessions = {}
    /\ tokenCounter = 0
    /\ users = (1 :> AdminUser)
    /\ pwSupplied = FALSE
    /\ adminLast = NoAnswer

CatalogIdle ==
    /\ products = {}
    /\ query = <<>>
    /\ found = [done |-> FALSE]

ClientIdle ==
    /\ shown = [selectedWeight |-> "none", currentPrice |-> "none"]
    /\ clientCart = <<>>
    /\ summary = [done |-> FALSE]

ShopIdle ==
    /\ productIdCounter = 1
    /\ slugAtCreation = <<>>
    /\ contacts = <<>>
    /\ shopLast = NoAnswer

RetryIdle ==
    /\ retryPc = "idle"
    /\ retries = 5
    /\ invocations = 0
    /\ reinits = 0
    /\ waited = 0
    /\ lastError = [by |-> 0]
    /\ outcome = [kind |-> "none"]
    /\ method = [name |-> "none"]
    /\ innerRetries = 5
    /\ queries = 0
    /\ swallowed = FALSE

DashIdle ==
    /\ dashProducts = {}
    /\ selectedProductIds = {}
    /\ toast = [title |-> "none"]

\* JSON bodies of POST /api/cart: productId, quantity and metaData are each
\* present or absent.
CartBodies ==
    [productId : ProductIds, quantity : BodyQuantities, metaData : MetaStrings]
    \cup [productId : ProductIds, quantity : BodyQuantities]
    \cup [productId : ProductIds, metaData : MetaStrings]
    \cup [productId : ProductIds]
    \cup [quantity : BodyQuantities]

\* JSON bodies of PUT /api/cart/:id
PutBodies == [quantity : BodyQuantities] \cup {EmptyBody}

\* the session-id request header: 0 is absent or empty, n > 0 an id issued before
SessionHeaders == {0} \cup SessionIds

(***************************************************************************)
(* shared/schema.ts                                                        *)
(***************************************************************************)
\* insertCartItemSchema.parse({...body, sessionId}): productId is required,
\* quantity optional; keys that are no column of cart_items are stripped.
insertCartItemSchema(body, sessionId) ==
    IF ~Has(body, "productId")
    THEN [ok |-> FALSE]
    ELSE [ok |-> TRUE,
          data |-> IF Has(body, "quantity")
                   THEN [sessionId |-> sessionId, productId |-> body.productId,
                         quantity |-> body.quantity]
                   ELSE [sessionId |-> sessionId, productId |-> body.productId]]

(***************************************************************************)
(* Storage: cart operations of MemStorage and PostgreSQLStorage.           *)
(***************************************************************************)
\* JS  x || 1  on an optional number
OrOne(rec, f) == IF Has(rec, f) /\ rec[f] # 0 THEN rec[f] ELSE 1

MetaOf(rec) == IF Has(rec, "metaData") THEN rec.metaData ELSE NoMeta

\* JSON.parse(metaData).selectedWeight; a text that is no JSON throws
SelectedWeightOf(m) ==
    CASE m = "{selectedWeight:500g}" -> "500g"
      [] m = "{selectedWeight: 500g}" -> "500g"
      [] m = "{selectedWeight:1kg}" -> "1kg"
      [] m = "500g" -> "SyntaxError"
      [] OTHER -> "undefined"

MinId(rows) == CHOOSE i \in rows : \A j \in rows : i.id <= j.id

\* MemStorage.getCartItemWithProduct: the first row, in insertion order, of
\* the session and product.  The set of rows it may return.
MemGetCartItemWithProduct(sessionId, productId) ==
    LET rows == {i \in cartItems : i.sessionId = sessionId /\ i.productId = productId}
    IN  IF rows = {} THEN {NoItem} ELSE {MinId(rows)}

\* PostgreSQLStorage.getCartItemWithProduct: the query has no ORDER BY, so
\* any row of the result may come first.  The set of rows it may return.
PgGetCartItemWithProduct(sessionId, productId, metaDataValue) ==
    LET results == {i \in cartItems : i.sessionId = sessionId /\ i.productId = productId}
        matching == {i \in results :
                        \/ i.metaData = metaDataValue
                        \/ /\ i.metaData # NoMeta
                           /\ SelectedWeightOf(i.metaData) # "SyntaxError"
                           /\ SelectedWeightOf(metaDataValue) # "SyntaxError"
                           /\ SelectedWeightOf(i.metaData) = SelectedWeightOf(metaDataValue)}
    IN  IF results # {} /\ metaDataValue # NoMeta
        THEN IF matching = {} THEN {NoItem} ELSE matching
        ELSE IF results = {} THEN {NoItem} ELSE results

getCartItemWithProduct(sessionId, productId, metaDataValue) ==
    IF storageKind = "mem"
    THEN MemGetCartItemWithProduct(sessionId, productId)
    ELSE PgGetCartItemWithProduct(sessionId, productId, metaDataValue)

\* MemStorage.addToCart: quantity || 1.  PostgreSQLStorage.addToCart: the
\* given quantity, the column default 1 when absent; metaData || null.
NewCartItem(data) ==
    [id |-> cartItemIdCounter,
     sessionId |-> data.sessionId,
     productId |-> data.productId,
     quantity |-> IF storageKind = "mem" THEN OrOne(data, "quantity")
                  ELSE IF Has(data, "quantity") THEN data.quantity ELSE 1,
     metaData |-> MetaOf(data)]

addToCart(data) == cartItems \cup {NewCartItem(data)}

\* updateCartItem(id, quantity): the row's quantity is set; no row, no change
updateCartItem(id, quantity) ==
    {IF i.id = id THEN [i EXCEPT !.quantity = quantity] ELSE i : i \in cartItems}

removeFromCart(id) == {i \in cartItems : i.id # id}

\* a clear that empties the whole table
clearCartOfEverySession(sessionId) == {}

clearCart(sessionId) == {i \in cartItems : i.sessionId # sessionId}

getCartItems(sessionId) == {i \in cartItems : i.sessionId = sessionId}

(***************************************************************************)
(* server/routes.ts: the cart routes.                                      *)
(***************************************************************************)
\* a handler that makes a new id for every request
SessionAlwaysNew(h) == sessionCounter + 1

\* let sessionId = req.headers["session-id"]; if (!sessionId) sessionId = nanoid()
SessionOf(h) == IF h = 0 THEN sessionCounter + 1 ELSE h

\* res.setHeader("session-id", sessionId) when the id is new; 0 is no header
SessionHeader(h) == IF h = 0 THEN sessionCounter + 1 ELSE 0

IssueSession(h) ==
    /\ h <= sessionCounter
    /\ h = 0 => sessionCounter + 1 \in SessionIds
    /\ sessionCounter' = IF h = 0 THEN sessionCounter + 1 ELSE sessionCounter

\* a write that looks the row up again and increments it when it is there now
PostCartStoreGuarded(existing, data) ==
    LET now == {i \in cartItems : /\ i.sessionId = data.sessionId
                                  /\ i.productId = data.productId}
    IN  IF now # {}
        THEN updateCartItem(MinId(now).id, MinId(now).quantity + OrOne(data, "quantity"))
        ELSE addToCart(data)

\* the table after POST /api/cart's write: the row it looked up gets the
\* quantity it was read with plus (quantity || 1); with no row, a new row
PostCartStore(existing, data) ==
    IF existing.id # 0
    THEN updateCartItem(existing.id, existing.quantity + OrOne(data, "quantity"))
    ELSE addToCart(data)

\* the rows and quantities the model follows
WithinBounds(existing, data) ==
    IF existing.id = 0
    THEN cartItemIdCounter <= MaxCartItems
    ELSE LET q == existing.quantity + OrOne(data, "quantity")
         IN  -1 <= q /\ q <= MaxQuantity

\* GET /api/cart
GetCartHandler(h) ==
    /\ IssueSession(h)
    /\ last' = [op |-> "GET /api/cart", code |-> 200]
    /\ UNCHANGED <<offServer, storageKind, cartItems, cartItemIdCounter, reqs>>

GetCart(h) ==
    /\ GetCartHandler(h)
    /\ UNCHANGED <<clientAll, trail>>

\* POST /api/cart, run to its answer with no other request in between
PostCartHandler(h, body) ==
    LET sessionId == SessionOf(h)
        parsed == insertCartItemSchema(body, sessionId)
    IN  /\ IssueSession(h)
        /\ IF ~parsed.ok
           THEN /\ last' = [op |-> "POST /api/cart", code |-> 400]
                /\ UNCHANGED <<offServer, storageKind, cartItems, cartItemIdCounter, reqs>>
           ELSE \E existing \in getCartItemWithProduct(sessionId, parsed.data.productId, NoMeta) :
                  /\ WithinBounds(existing, parsed.data)
                  /\ cartItems' = PostCartStore(existing, parsed.data)
                  /\ cartItemIdCounter' = IF existing.id # 0 THEN cartItemIdCounter
                                          ELSE cartItemIdCounter + 1
                  /\ last' = [op |-> "POST /api/cart",
                              code |-> IF existing.id # 0 THEN 200 ELSE 201]
                  /\ UNCHANGED <<offServer, storageKind, reqs>>

PostCart(h, body) ==
    /\ PostCartHandler(h, body)
    /\ UNCHANGED <<clientAll, trail>>

\* PUT /api/cart/:id
PutCartItemHandler(id, body) ==
    IF id = NaN \/ ~Has(body, "quantity") \/ body.quantity < 1
    THEN /\ last' = [op |-> "PUT /api/cart/:id", code |-> 400,
                     unknown |-> id # NaN /\ ~\E i \in cartItems : i.id = id]
         /\ UNCHANGED <<offServer, cartVars>>
    ELSE /\ cartItems' = updateCartItem(id, body.quantity)
         /\ last' = [op |-> "PUT /api/cart/:id",
                     code |-> IF \E i \in cartItems : i.id = id THEN 200 ELSE 404,
                     unknown |-> ~\E i \in cartItems : i.id = id]
         /\ UNCHANGED <<offServer, storageKind, cartItemIdCounter, sessionCounter, reqs>>

PutCartItem(id, body) ==
    /\ PutCartItemHandler(id, body)
    /\ UNCHANGED <<clientAll, trail>>

\* DELETE /api/cart/:id
DeleteCartItemHandler(id) ==
    IF id = NaN
    THEN /\ last' = [op |-> "DELETE /api/cart/:id", code |-> 400, unknown |-> FALSE]
         /\ UNCHANGED <<offServer, cartVars>>
    ELSE /\ cartItems' = removeFromCart(id)
         /\ last' = [op |-> "DELETE /api/cart/:id", code |-> 204,
                     unknown |-> ~\E i \in cartItems : i.id = id]
         /\ UNCHANGED <<offServer, storageKind, cartItemIdCounter, sessionCounter, reqs>>

DeleteCartItem(id) ==
    /\ DeleteCartItemHandler(id)
    /\ UNCHANGED <<clientAll, trail>>

\* DELETE /api/cart
DeleteCartHandler(h) ==
    IF h = 0
    THEN /\ last' = [op |-> "DELETE /api/cart", code |-> 400, sessionId |-> h,
                     removed |-> 0]
         /\ UNCHANGED <<offServer, cartVars>>
    ELSE /\ cartItems' = clearCart(h)
         /\ last' = [op |-> "DELETE /api/cart", code |-> 204, sessionId |-> h,
                     removed |-> Cardinality(getCartItems(h))]
         /\ UNCHANGED <<offServer, storageKind, cartItemIdCounter, sessionCounter, reqs>>

DeleteCart(h) ==
    /\ DeleteCartHandler(h)
    /\ UNCHANGED <<clientAll, trail>>

\* storage = DATABASE_URL ? new PostgreSQLStorage(...) : new MemStorage()
CartInit ==
    /\ storageKind \in {"mem", "pg"}
    /\ CartIdle
    /\ AdminIdle
    /\ CatalogIdle
    /\ ClientIdle
    /\ ShopIdle
    /\ RetryIdle
    /\ DashIdle

PathIds == (1 .. MaxCartItems) \cup {NaN}

CartNext ==
    \/ \E h \in SessionHeaders : GetCart(h)
    \/ \E h \in SessionHeaders, body \in CartBodies : PostCart(h, body)
    \/ \E id \in PathIds, body \in PutBodies : PutCartItem(id, body)
    \/ \E id \in PathIds : DeleteCartItem(id)
    \/ \E h \in SessionHeaders : DeleteCart(h)

\* the cart routes, requests served one after the other
CartSpec == CartInit /\ [][CartNext]_vars

\* what a served POST /api/cart leaves in the history
Served(h, body) ==
    [sessionId |-> SessionOf(h), productId |-> body.productId,
     meta |-> MetaOf(body),
     given |-> Has(body, "quantity"),
     quantity |-> IF Has(body, "quantity") THEN body.quantity ELSE 0,
     code |-> last'.code,
     counter |-> cartItemIdCounter']

\* the history keeps a request together with the one before it when that
\* one created a row for the same session and product
Follows(entry, h, body) ==
    /\ entry.code = 201
    /\ entry.sessionId = SessionOf(h)
    /\ entry.productId = body.productId

AddBodies == {b \in CartBodies : Has(b, "productId") /\ (Has(b, "quantity") => b.quantity >= 0)}

AddCart(h, body) ==
    /\ PostCartHandler(h, body)
    /\ UNCHANGED clientAll
    /\ trail' = IF trail # <<>> /\ Follows(trail[Len(trail)], h, body)
                THEN <<trail[Len(trail)], Served(h, body)>>
                ELSE <<Served(h, body)>>

AddNext ==
    \E h \in SessionHeaders, body \in AddBodies : AddCart(h, body)

\* POST /api/cart requests only, served one after the other
AddSpec == CartInit /\ [][AddNext]_vars

\* ---------------------------------------------------------------------
\* GET and POST /api/cart with the session-id header of the request and of
\* the response kept for each request served
\* ---------------------------------------------------------------------
SessionGet(h) ==
    /\ GetCartHandler(h)
    /\ UNCHANGED clientAll
    /\ trail' = <<[op |-> "GET /api/cart", code |-> 200, given |-> h,
                   sessionId |-> SessionOf(h), header |-> SessionHeader(h),
                   rows |-> getCartItems(SessionOf(h))]>>

SessionPost(h, body) ==
    /\ PostCartHandler(h, body)
    /\ UNCHANGED clientAll
    /\ trail' = <<[op |-> "POST /api/cart", code |-> last'.code, given |-> h,
                   sessionId |-> SessionOf(h), header |-> SessionHeader(h)]>>

SessionNext ==
    \/ \E h \in SessionHeaders : SessionGet(h)
    \/ \E h \in SessionHeaders, body \in CartBodies : SessionPost(h, body)

SessionSpec == CartInit /\ [][SessionNext]_vars

\* ---------------------------------------------------------------------
\* storage.getCartItemWithProduct as a function of the table and of its
\* arguments
\* ---------------------------------------------------------------------
\* metaData texts: the two of MetaStrings, the first of them written with a
\* space (another text, the same parsed value), and a text that is no JSON
LookupTexts == MetaStrings \cup {"{selectedWeight: 500g}", "500g"}

\* the rows a table can hold under one id
LookupRows(id) ==
    {{}} \cup {{[id |-> id, sessionId |-> s, productId |-> p, quantity |-> 1,
                 metaData |-> m]} :
                 s \in SessionIds, p \in ProductIds, m \in LookupTexts \cup {NoMeta}}

Lookup(sessionId, productId, metaDataValue) ==
    /\ \E row \in getCartItemWithProduct(sessionId, productId, metaDataValue) :
          last' = [op |-> "getCartItemWithProduct", sessionId |-> sessionId,
                   productId |-> productId, metaData |-> metaDataValue, row |-> row]
    /\ UNCHANGED <<offCart, storageKind, cartItems, cartItemIdCounter, sessionCounter,
                   reqs, trail>>

LookupInit ==
    /\ storageKind \in {"mem", "pg"}
    /\ \E first \in LookupRows(1), second \in LookupRows(2) :
          cartItems = first \cup second
    /\ cartItemIdCounter = 3
    /\ sessionCounter = 2
    /\ reqs = [r \in RequestSlots |-> IdleReq]
    /\ last = NoAnswer
    /\ trail = <<>>
    /\ AdminIdle
    /\ CatalogIdle
    /\ ClientIdle
    /\ ShopIdle
    /\ RetryIdle
    /\ DashIdle

LookupNext ==
    \E sessionId \in SessionIds, productId \in ProductIds,
       metaDataValue \in LookupTexts \cup {NoMeta} :
       Lookup(sessionId, productId, metaDataValue)

LookupSpec == LookupInit /\ [][LookupNext]_vars

\* ---------------------------------------------------------------------
\* POST /api/cart against PostgreSQL: the lookup and the write are two
\* awaited queries, and other requests are served between them
\* ---------------------------------------------------------------------

PostCartRead(r, h, body) ==
    LET sessionId == SessionOf(h)
        parsed == insertCartItemSchema(body, sessionId)
    IN  /\ reqs[r].phase = "idle"
        /\ IssueSession(h)
        /\ \E existing \in getCartItemWithProduct(sessionId, parsed.data.productId, NoMeta) :
             reqs' = [reqs EXCEPT ![r] = [phase |-> "read", data |-> parsed.data,
                                          existing |-> existing]]
        /\ UNCHANGED <<offCart, storageKind, cartItems, cartItemIdCounter, last, trail>>

PostCartWrite(r) ==
    LET existing == reqs[r].existing
        data == reqs[r].data
    IN  /\ reqs[r].phase = "read"
        /\ WithinBounds(existing, data)
        /\ cartItems' = PostCartStore(existing, data)
        /\ cartItemIdCounter' = IF existing.id # 0 THEN cartItemIdCounter
                                ELSE cartItemIdCounter + 1
        /\ last' = [op |-> "POST /api/cart",
                    code |-> IF existing.id # 0 THEN 200 ELSE 201]
        /\ reqs' = [reqs EXCEPT ![r] = IdleReq]
        /\ UNCHANGED <<offCart, storageKind, sessionCounter, trail>>

\* the concurrent requests carry a quantity of at least 1
RaceBodies == {b \in AddBodies : Has(b, "quantity") /\ b.quantity >= 1}

CartRaceInit ==
    /\ CartInit
    /\ storageKind = "pg"

CartRaceNext ==
    \/ \E r \in RequestSlots, h \in SessionHeaders, body \in RaceBodies : PostCartRead(r, h, body)
    \/ \E r \in RequestSlots : PostCartWrite(r)

CartRaceSpec == CartRaceInit /\ [][CartRaceNext]_vars

\* ---------------------------------------------------------------------
\* The admin session table, the isAdmin gate and the admin authentication
\* routes (server/routes.ts)
\* ---------------------------------------------------------------------

\* process.env.ADMIN_KEY || process.env.ADMIN_SECRET || "admin-secret"
adminSecret == "admin-secret"

\* x-admin-key: absent, the secret, or another text
AdminKeys == {"none", "admin-secret", "guess"}

\* a token carried by a header or cookie; 0 when the carrier is absent or empty
Carried == 0 .. MaxTokens

Carriers == {"adminSessionId", "xAdminSessionId", "authorization", "cookie"}

\* requests with a key header or none and a token in at most two carriers
AdminRequests ==
    {req \in [key : AdminKeys, adminSessionId : Carried, xAdminSessionId : Carried,
              authorization : Carried, cookie : Carried] :
        Cardinality({c \in Carriers : req[c] # 0}) <= 2}

\* a || b
Either(a, b) == IF a # 0 THEN a ELSE b

\* req.headers["admin-session-id"] || req.headers["x-admin-session-id"] ||
\* req.headers["authorization"]?.replace("Bearer ", "") || req.cookies?.adminSessionId
SessionIdOf(req) ==
    Either(req.adminSessionId,
           Either(req.xAdminSessionId, Either(req.authorization, req.cookie)))

HasSession(sessionId) == \E s \in adminSessions : s.token = sessionId

SessionOfToken(sessionId) == CHOOSE s \in adminSessions : s.token = sessionId

\* a gate that wants a session whatever key the request carries
isAdminSessionOnly(req) ==
    LET sessionId == SessionIdOf(req)
    IN  IF sessionId = 0 THEN [next |-> FALSE, code |-> 403]
        ELSE IF ~HasSession(sessionId) THEN [next |-> FALSE, code |-> 403]
        ELSE IF \/ ~SessionOfToken(sessionId).isAuthenticated
                \/ ~SessionOfToken(sessionId).isAdmin
             THEN [next |-> FALSE, code |-> 403]
        ELSE [next |-> TRUE, code |-> 200]

\* the isAdmin middleware: next() or the 403 it answers
isAdmin(req) ==
    LET sessionId == SessionIdOf(req)
    IN  IF req.key = adminSecret THEN [next |-> TRUE, code |-> 200]
        ELSE IF sessionId = 0 THEN [next |-> FALSE, code |-> 403]
        ELSE IF ~HasSession(sessionId) THEN [next |-> FALSE, code |-> 403]
        ELSE IF \/ ~SessionOfToken(sessionId).isAuthenticated
                \/ ~SessionOfToken(sessionId).isAdmin
             THEN [next |-> FALSE, code |-> 403]
        ELSE [next |-> TRUE, code |-> 200]

\* the tokens a request carries, in any of its four carriers
Presented(req) ==
    {req.adminSessionId, req.xAdminSessionId, req.authorization, req.cookie} \ {0}

\* a route behind the gate, such as GET /api/admin/contacts
AdminRoute(req) ==
    /\ adminLast' = [op |-> "admin route", code |-> isAdmin(req).code,
                     handlerRan |-> isAdmin(req).next, key |-> req.key,
                     presented |-> Presented(req), sessionId |-> SessionIdOf(req)]
    /\ UNCHANGED <<offAdmin, storageKind, adminSessions, tokenCounter, users, pwSupplied>>

\* authenticator.verify({token, secret}): the token is the secret's current code
TotpOf(secret) == 10 + secret

verifyToken(token, secret) == token = TotpOf(secret)

\* secrets a client can name (0: none) and codes it can send (0: none)
OtpSecrets == {0, 1, 2}
OtpTokens == {0, 11, 12, 19}

UserIds == {0, 1, 2, 3}
Usernames == {"", "admin", "admin_millikit", "shopper"}
Passwords == {"", "the_millikit", "millikit2023", "guess"}

\* a row of the users table that is not the admin's
Shopper == [username |-> "shopper", password |-> "shopper_pw",
            otpSecret |-> 0, otpEnabled |-> FALSE, isAdmin |-> FALSE]

\* storage.getUserByUsername: the user's id, 0 for undefined
getUserByUsername(username) ==
    IF \E id \in DOMAIN users : users[id].username = username
    THEN CHOOSE id \in DOMAIN users : users[id].username = username
    ELSE 0

\* storage.isAdmin
storageIsAdmin(userId) == userId \in DOMAIN users /\ users[userId].isAdmin

\* storage.verifyOtp
verifyOtp(userId, token) ==
    /\ userId \in DOMAIN users
    /\ users[userId].otpSecret # 0
    /\ users[userId].otpEnabled
    /\ verifyToken(token, users[userId].otpSecret)

\* an enableOtp that stores the secret without switching OTP on
enableOtpLeavingItOff(userId, secret) ==
    IF userId \notin DOMAIN users
    THEN [updated |-> FALSE, users |-> users]
    ELSE [updated |-> TRUE, users |-> [users EXCEPT ![userId].otpSecret = secret]]

\* storage.enableOtp: the users table after it, and whether it returned a user
enableOtp(userId, secret) ==
    IF userId \notin DOMAIN users \/ (storageKind = "mem" /\ userId # 1)
    THEN [updated |-> FALSE, users |-> users]
    ELSE [updated |-> TRUE,
          users |-> [users EXCEPT ![userId] =
                        [@ EXCEPT !.otpSecret = secret, !.otpEnabled = TRUE,
                                  !.isAdmin = IF storageKind = "mem" THEN TRUE ELSE @]]]

\* adminSessions.set(nanoid(), {userId, username, isAdmin, isAuthenticated: true})
NewSession(userId) ==
    [token |-> tokenCounter + 1, userId |-> userId,
     isAdmin |-> storageIsAdmin(userId), isAuthenticated |-> TRUE]

CreateSession(userId) ==
    /\ tokenCounter < MaxTokens
    /\ tokenCounter' = tokenCounter + 1
    /\ adminSessions' = adminSessions \cup {NewSession(userId)}

\* the request carries one of the two admin passwords the code knows
IsAdminPassword(password) == password \in {AdminUser.password, "millikit2023"}

\* the bodies the login and verify-otp routes are sent; "" and 0 stand for a
\* field that is missing
LoginBodies == [username : Usernames, password : Passwords]
VerifyOtpBodies == [userId : UserIds, token : OtpTokens]

\* a login that opens the session before it compares the password
AdminLoginSessionFirst(body) ==
    LET user == getUserByUsername(body.username)
    IN  /\ pwSupplied' = (pwSupplied \/ IsAdminPassword(body.password))
        /\ IF body.username = "" \/ body.password = ""
           THEN /\ adminLast' = [op |-> "login", code |-> 400]
                /\ UNCHANGED <<adminSessions, tokenCounter>>
           ELSE IF user = 0 \/ user # 1
           THEN /\ adminLast' = [op |-> "login", code |-> 401]
                /\ UNCHANGED <<adminSessions, tokenCounter>>
           ELSE /\ CreateSession(user)
                /\ adminLast' = [op |-> "login",
                                 code |-> IF users[user].password # body.password
                                          THEN 401 ELSE 200]
        /\ UNCHANGED <<offAdmin, storageKind, users>>

\* POST /api/admin/login
AdminLogin(body) ==
    LET user == getUserByUsername(body.username)
    IN  /\ pwSupplied' = (pwSupplied \/ IsAdminPassword(body.password))
        /\ IF body.username = "" \/ body.password = ""
           THEN /\ adminLast' = [op |-> "login", code |-> 400]
                /\ UNCHANGED <<adminSessions, tokenCounter>>
           ELSE IF user = 0 \/ user # 1
           THEN /\ adminLast' = [op |-> "login", code |-> 401]
                /\ UNCHANGED <<adminSessions, tokenCounter>>
           ELSE IF users[user].password # body.password
           THEN /\ adminLast' = [op |-> "login", code |-> 401]
                /\ UNCHANGED <<adminSessions, tokenCounter>>
           ELSE /\ CreateSession(user)
                /\ adminLast' = [op |-> "login", code |-> 200]
        /\ UNCHANGED <<offAdmin, storageKind, users>>

\* POST /api/admin/verify-otp
AdminVerifyOtp(body) ==
    /\ IF body.userId = 0 \/ body.token = 0
       THEN /\ adminLast' = [op |-> "verify-otp", code |-> 400]
            /\ UNCHANGED <<adminSessions, tokenCounter>>
       ELSE IF body.userId \notin DOMAIN users
       THEN /\ adminLast' = [op |-> "verify-otp", code |-> 404]
            /\ UNCHANGED <<adminSessions, tokenCounter>>
       ELSE IF ~verifyOtp(body.userId, body.token)
       THEN /\ adminLast' = [op |-> "verify-otp", code |-> 401]
            /\ UNCHANGED <<adminSessions, tokenCounter>>
       ELSE /\ CreateSession(body.userId)
            /\ adminLast' = [op |-> "verify-otp", code |-> 200]
    /\ UNCHANGED <<offAdmin, storageKind, users, pwSupplied>>

\* POST /api/admin/setup-otp: answers with a generated secret, stores nothing
AdminSetupOtp(body) ==
    /\ pwSupplied' = (pwSupplied \/ IsAdminPassword(body.password))
    /\ adminLast' =
         [op |-> "setup-otp",
          code |-> IF body.username # "admin" THEN 401
                   ELSE IF 1 \notin DOMAIN users THEN 404
                   ELSE IF body.password # "millikit2023" THEN 401
                   ELSE IF /\ users[1].otpEnabled /\ users[1].otpSecret # 0
                           /\ (body.currentOtpToken = 0 \/ ~verifyOtp(1, body.currentOtpToken))
                        THEN 400
                   ELSE 200]
    /\ UNCHANGED <<offAdmin, storageKind, adminSessions, tokenCounter, users>>

\* POST /api/admin/verify-setup
AdminVerifySetup(body) ==
    /\ IF body.userId = 0 \/ body.token = 0 \/ body.secret = 0
       THEN /\ adminLast' = [op |-> "verify-setup", code |-> 400]
            /\ UNCHANGED users
       ELSE IF ~verifyToken(body.token, body.secret)
       THEN /\ adminLast' = [op |-> "verify-setup", code |-> 401]
            /\ UNCHANGED users
       ELSE /\ users' = enableOtp(body.userId, body.secret).users
            /\ adminLast' = [op |-> "verify-setup",
                             code |-> IF enableOtp(body.userId, body.secret).updated
                                      THEN 200 ELSE 500]
    /\ UNCHANGED <<offAdmin, storageKind, adminSessions, tokenCounter, pwSupplied>>

\* a logout that empties the table
DeleteAllSessions(sessionId) == {}

\* if (sessionId && adminSessions.has(sessionId)) adminSessions.delete(sessionId)
DeleteSession(sessionId) == {s \in adminSessions : s.token # sessionId}

\* requests to the logout route, which does not read x-admin-key
LogoutRequests == {req \in AdminRequests : req.key = "none"}

\* POST /api/admin/logout
AdminLogout(req) ==
    /\ adminSessions' = DeleteSession(SessionIdOf(req))
    /\ adminLast' = [op |-> "logout", code |-> 200, sessionId |-> SessionIdOf(req)]
    /\ UNCHANGED <<offAdmin, storageKind, tokenCounter, users, pwSupplied>>

\* the users table a store starts with
InitialUsers == IF storageKind = "pg" THEN (1 :> AdminUser) @@ (2 :> Shopper)
                ELSE (1 :> AdminUser)

\* the process stops and starts again: the session table is gone, MemStorage
\* is built anew, the database keeps its rows
Restart ==
    /\ adminSessions' = {}
    /\ users' = IF storageKind = "mem" THEN (1 :> AdminUser) ELSE users
    /\ adminLast' = [op |-> "restart", code |-> 0]
    /\ UNCHANGED <<offAdmin, storageKind, tokenCounter, pwSupplied>>

AdminInit ==
    /\ storageKind \in {"mem", "pg"}
    /\ CartIdle
    /\ CatalogIdle
    /\ ClientIdle
    /\ ShopIdle
    /\ RetryIdle
    /\ DashIdle
    /\ adminSessions = {}
    /\ tokenCounter = 0
    /\ users = InitialUsers
    /\ pwSupplied = FALSE
    /\ adminLast = NoAnswer

AdminNext ==
    \/ \E req \in AdminRequests : AdminRoute(req)
    \/ \E body \in LoginBodies : AdminLogin(body)
    \/ \E body \in VerifyOtpBodies : AdminVerifyOtp(body)
    \/ \E body \in [username : Usernames, password : Passwords,
                    currentOtpToken : OtpTokens] : AdminSetupOtp(body)
    \/ \E body \in [userId : UserIds, token : OtpTokens, secret : OtpSecrets] :
          AdminVerifySetup(body)
    \/ \E req \in LogoutRequests : AdminLogout(req)
    \/ Restart

AdminSpec == AdminInit /\ [][AdminNext]_vars

\* ---------------------------------------------------------------------
\* searchProducts of the two stores
\* ---------------------------------------------------------------------

\* the characters of the model's texts; % and _ are the wildcards of LIKE
Chars == {"a", "A", "b", "%", "_"}

Texts(n) == UNION {[1 .. k -> Chars] : k \in 0 .. n}

\* String.prototype.toLowerCase / the case folding of ILIKE, on one character
LowerChar(c) == IF c = "A" THEN "a" ELSE c

toLowerCase(text) == [i \in 1 .. Len(text) |-> LowerChar(text[i])]

\* String.prototype.includes
includes(text, part) ==
    \E i \in 0 .. Len(text) - Len(part) : SubSeq(text, i + 1, i + Len(part)) = part

RECURSIVE LikeMatch(_, _)
\* text LIKE pattern: % stands for any run of characters, _ for any one
LikeMatch(pattern, text) ==
    IF pattern = <<>> THEN text = <<>>
    ELSE IF Head(pattern) = "%"
         THEN \/ LikeMatch(Tail(pattern), text)
              \/ text # <<>> /\ LikeMatch(pattern, Tail(text))
    ELSE IF Head(pattern) = "_"
         THEN text # <<>> /\ LikeMatch(Tail(pattern), Tail(text))
    ELSE /\ text # <<>>
         /\ Head(text) = Head(pattern)
         /\ LikeMatch(Tail(pattern), Tail(text))

\* drizzle's ilike(column, pattern): LIKE without regard to case
ilike(text, pattern) == LikeMatch(toLowerCase(pattern), toLowerCase(text))

getProducts == products

MemSearchProducts(q) ==
    {p \in products : \/ includes(toLowerCase(p.name), toLowerCase(q))
                      \/ includes(toLowerCase(p.description), toLowerCase(q))
                      \/ includes(toLowerCase(p.category), toLowerCase(q))}

PgSearchProducts(q) ==
    IF q = <<>> THEN getProducts
    ELSE {p \in products : \/ ilike(p.name, <<"%">> \o q \o <<"%">>)
                           \/ ilike(p.description, <<"%">> \o q \o <<"%">>)
                           \/ ilike(p.category, <<"%">> \o q \o <<"%">>)}

searchProducts(q) ==
    IF storageKind = "mem" THEN MemSearchProducts(q) ELSE PgSearchProducts(q)

\* the rows a catalogue of the model is made of
ProductNames == {<<"a", "b">>, <<"A">>, <<"b", "%">>}
ProductDescriptions == {<<"b", "a">>, <<"a", "_", "b">>}
ProductCategories == {<<"b">>, <<"A", "a">>}

ProductRows(id) ==
    [id : {id}, name : ProductNames, description : ProductDescriptions,
     category : ProductCategories, price : {"100"}, weightPrices : {"null"}]

Catalogues ==
    {{}} \cup {{p} : p \in ProductRows(1)}
         \cup {{p1, p2} : p1 \in ProductRows(1), p2 \in ProductRows(2)}

\* a call of storage.searchProducts
Search ==
    /\ ~found.done
    /\ found' = [done |-> TRUE, rows |-> searchProducts(query)]
    /\ UNCHANGED <<offCatalog, products, query>>

\* a call of storage.getProducts
ListProducts ==
    /\ ~found.done
    /\ found' = [done |-> TRUE, rows |-> getProducts]
    /\ query' = <<>>
    /\ UNCHANGED <<offCatalog, products>>

SearchInit ==
    /\ storageKind \in {"mem", "pg"}
    /\ CartIdle
    /\ AdminIdle
    /\ ClientIdle
    /\ ShopIdle
    /\ RetryIdle
    /\ DashIdle
    /\ products \in Catalogues
    /\ query \in Texts(MaxQueryLen)
    /\ found = [done |-> FALSE]

SearchNext ==
    \/ Search
    \/ ListProducts

SearchSpec == SearchInit /\ [][SearchNext]_vars

\* ---------------------------------------------------------------------
\* The client: the price ProductDetail shows, the line CartContext.addToCart
\* keeps, and calculateCartSummary
\* ---------------------------------------------------------------------

\* weight labels; "none" is no selected weight (undefined)
WeightLabels == {"500g", "1kg"}

\* a price as the client holds it: a decimal text, or the object a
\* weight-price map may hold in a label's place
TextPrice(text) == [kind |-> "string", text |-> text]
ObjectPrice(text) == [kind |-> "object", price |-> text]

\* product.weightPrices: null, or a text meant to be a JSON object from
\* labels to prices (braces and quotes left out of the model's texts)
WeightPriceTexts ==
    {"null", "", "not json", "{}", "500g:60", "500g:60,1kg:110", "500g:", "500g:{price:60}"}

\* JSON.parse of such a text: it throws, or gives the object
JsonParse(text) ==
    CASE text = "{}" -> [ok |-> TRUE, value |-> [l \in {} |-> TextPrice("")]]
      [] text = "500g:60" -> [ok |-> TRUE, value |-> [l \in {"500g"} |-> TextPrice("60")]]
      [] text = "500g:60,1kg:110" ->
            [ok |-> TRUE, value |-> [l \in {"500g", "1kg"} |->
                                        IF l = "500g" THEN TextPrice("60") ELSE TextPrice("110")]]
      [] text = "500g:" -> [ok |-> TRUE, value |-> [l \in {"500g"} |-> TextPrice("")]]
      [] text = "500g:{price:60}" ->
            [ok |-> TRUE, value |-> [l \in {"500g"} |-> ObjectPrice("60")]]
      [] OTHER -> [ok |-> FALSE]

\* a text that is not null and not empty is truthy
TruthyText(text) == text \notin {"null", ""}

\* a parsed entry is truthy unless it is the empty string
TruthyPrice(price) == price.kind = "object" \/ price.text # ""

\* ProductDetail: the price on display for a product and a selected weight
DetailPrice(product, weight) ==
    IF ~TruthyText(product.weightPrices) THEN TextPrice(product.price)
    ELSE IF ~JsonParse(product.weightPrices).ok THEN TextPrice(product.price)
    ELSE LET parsedPrices == JsonParse(product.weightPrices).value
         IN  IF weight \in DOMAIN parsedPrices /\ TruthyPrice(parsedPrices[weight])
             THEN parsedPrices[weight]
             ELSE TextPrice(product.price)

\* CartContext.addToCart: the itemPrice kept as the line's displayPrice
ItemPrice(product, selectedWeight) ==
    IF selectedWeight = "none" \/ ~TruthyText(product.weightPrices)
    THEN TextPrice(product.price)
    ELSE IF ~JsonParse(product.weightPrices).ok THEN TextPrice(product.price)
    ELSE LET weightPrices == JsonParse(product.weightPrices).value
         IN  IF /\ selectedWeight \in DOMAIN weightPrices
                /\ TruthyPrice(weightPrices[selectedWeight])
                /\ weightPrices[selectedWeight].kind = "object"
                /\ weightPrices[selectedWeight].price # ""
             THEN TextPrice(weightPrices[selectedWeight].price)
             ELSE TextPrice(product.price)

\* parseFloat of the model's price texts
parseFloat(text) ==
    CASE text = "100" -> 100
      [] text = "60" -> 60
      [] text = "110" -> 110
      [] text = "1" -> 1
      [] text = "499" -> 499
      [] text = "500" -> 500
      [] text = "999" -> 999
      [] text = "1000" -> 1000
      [] text = "1001" -> 1001
      [] OTHER -> 0

\* price || "0"
OrZero(text) == IF TruthyText(text) THEN text ELSE "0"

FreeShippingThreshold == 1000
ShippingFee == 100
TaxPercent == 5

RECURSIVE Subtotal(_)
\* cartItems.reduce((total, item) => total + parseFloat(item.product?.price || "0") * item.quantity, 0)
Subtotal(lines) ==
    IF lines = <<>> THEN 0
    ELSE Subtotal(SubSeq(lines, 1, Len(lines) - 1))
         + (IF Has(lines[Len(lines)], "product")
            THEN parseFloat(OrZero(lines[Len(lines)].product.price))
            ELSE parseFloat("0")) * lines[Len(lines)].quantity

\* a calculateCartSummary whose free shipping starts at the threshold itself
calculateCartSummaryFromThreshold(lines) ==
    LET subtotal == Subtotal(lines)
        shipping == IF subtotal >= FreeShippingThreshold THEN 0 ELSE ShippingFee
    IN  [done |-> TRUE, subtotal |-> subtotal, shipping |-> shipping,
         tax100 |-> subtotal * TaxPercent,
         total100 |-> subtotal * 100 + shipping * 100 + subtotal * TaxPercent]

\* calculateCartSummary; tax and total are kept in hundredths
calculateCartSummary(lines) ==
    LET subtotal == Subtotal(lines)
        shipping == IF subtotal > FreeShippingThreshold THEN 0 ELSE ShippingFee
    IN  [done |-> TRUE, subtotal |-> subtotal, shipping |-> shipping,
         tax100 |-> subtotal * TaxPercent,
         total100 |-> subtotal * 100 + shipping * 100 + subtotal * TaxPercent]

ProductById(id) == CHOOSE p \in products : p.id = id

\* ProductDetail: the product is loaded or a weight option is clicked
ShowPrice(id, weight) ==
    /\ shown' = [productId |-> id, selectedWeight |-> weight,
                 currentPrice |-> DetailPrice(ProductById(id), weight)]
    /\ UNCHANGED <<offClient, products, clientCart, summary>>

\* the line CartContext.addToCart appends for a product not yet in the cart
NewLine(id, quantity, selectedWeight) ==
    [productId |-> id, quantity |-> quantity,
     product |-> [price |-> ProductById(id).price,
                  weightPrices |-> ProductById(id).weightPrices,
                  displayPrice |-> ItemPrice(ProductById(id), selectedWeight),
                  selectedWeight |-> selectedWeight]]

\* CartContext.addToCart(productId, quantity, selectedWeight) for a product
\* the cart does not hold yet
ClientAddToCart(id, quantity, selectedWeight) ==
    /\ \A n \in 1 .. Len(clientCart) : clientCart[n].productId # id
    /\ clientCart' = Append(clientCart, NewLine(id, quantity, selectedWeight))
    /\ summary' = [done |-> FALSE]
    /\ UNCHANGED <<offClient, products, shown>>

\* ProductDetail.handleAddToCart: addToCart(product.id, quantity)
HandleAddToCart(quantity) ==
    /\ shown.selectedWeight # "none"
    /\ ClientAddToCart(shown.productId, quantity, "none")

\* Checkout renders: calculateCartSummary(cartItems)
Summarise ==
    /\ ~summary.done
    /\ summary' = calculateCartSummary(clientCart)
    /\ UNCHANGED <<offClient, products, shown, clientCart>>

PricedRows(id, prices, maps) ==
    [id : {id}, name : {<<"a">>}, description : {<<"b">>}, category : {<<"b">>},
     price : prices, weightPrices : maps]

ClientInit ==
    /\ storageKind = "mem"
    /\ CartIdle
    /\ AdminIdle
    /\ \E p1 \in PricedRows(1, {"100", "110"}, WeightPriceTexts),
          p2 \in PricedRows(2, {"60"}, {"null", "500g:60,1kg:110"}) : products = {p1, p2}
    /\ query = <<>>
    /\ found = [done |-> FALSE]
    /\ ClientIdle
    /\ ShopIdle
    /\ RetryIdle
    /\ DashIdle

ClientNext ==
    \/ \E id \in ProductIds, weight \in WeightLabels : ShowPrice(id, weight)
    \/ \E id \in ProductIds, quantity \in 1 .. MaxLineQuantity,
          weight \in WeightLabels \cup {"none"} : ClientAddToCart(id, quantity, weight)
    \/ \E quantity \in 1 .. MaxLineQuantity : HandleAddToCart(quantity)
    \/ Summarise

PriceSpec == ClientInit /\ [][ClientNext]_vars

\* base prices that bring a cart's subtotal below, onto and above the
\* free-shipping threshold
ThresholdPrices == {"499", "500", "999", "1000", "1001"}

\* carts of products without weight prices, priced around the threshold
SummaryInit ==
    /\ storageKind = "mem"
    /\ CartIdle
    /\ AdminIdle
    /\ \E p1 \in PricedRows(1, ThresholdPrices, {"null"}),
          p2 \in PricedRows(2, {"1", "500"}, {"null"}) : products = {p1, p2}
    /\ query = <<>>
    /\ found = [done |-> FALSE]
    /\ ClientIdle
    /\ ShopIdle
    /\ RetryIdle
    /\ DashIdle

SummaryNext ==
    \/ \E id \in ProductIds, quantity \in 1 .. MaxLineQuantity :
          ClientAddToCart(id, quantity, "none")
    \/ Summarise

SummarySpec == SummaryInit /\ [][SummaryNext]_vars

\* ---------------------------------------------------------------------
\* The catalogue and contact routes: GET /api/products/:id and
\* /api/products/slug/:slug, POST /api/contact, and the product routes
\* behind the isAdmin gate, for requests the gate has let through
\* ---------------------------------------------------------------------

MaxProducts == 2
MaxContacts == 1

\* a JSON number where the schema wants a decimal string
NumberPrice(n) == [kind |-> "number", value |-> n]

\* slugs as a request gives them; the empty text is falsy
SlugTexts == {<<>>, <<"a">>, <<"a", "-", "b">>}

\* JSON bodies of the product routes: each of name, slug and price is
\* present or absent; the other columns are taken as given and well-formed
ProductBodies ==
    LET names == {<<"A">>, <<"a", " ", " ", "b">>}
        prices == {TextPrice("100"), NumberPrice(5)}
    IN  [name : names, slug : SlugTexts, price : prices]
        \cup [name : names, slug : SlugTexts]
        \cup [name : names]
        \cup [slug : SlugTexts]
        \cup [price : prices]

\* insertProductSchema.parse: name, slug and price are required strings
insertProductSchema(body) ==
    /\ Has(body, "name")
    /\ Has(body, "slug")
    /\ Has(body, "price")
    /\ body.price.kind = "string"

\* the same schema with every column optional (Partial<InsertProduct>)
PartialInsertProduct(body) ==
    Has(body, "price") => body.price.kind = "string"

\* name.toLowerCase().replace(/\s+/g, '-')
SlugOfName(name) ==
    LET lower == toLowerCase(name)
        keep == {i \in 1 .. Len(lower) : lower[i] # " " \/ i = 1 \/ lower[i - 1] # " "}
        nth(k) == CHOOSE i \in keep : Cardinality({j \in keep : j <= i}) = k
    IN  [k \in 1 .. Cardinality(keep) |->
            IF lower[nth(k)] = " " THEN "-" ELSE lower[nth(k)]]

\* the products table's unique constraint on slug
SlugTaken(slug, exceptId) ==
    \E p \in products : p.id # exceptId /\ p.slug = slug

\* what a decimal column gives back for a value written to it
DecimalColumn(price) ==
    IF price.kind = "number" THEN TextPrice("5.00") ELSE price

getProductById(id) == {p \in products : p.id = id}

getProductBySlug(slug) ==
    IF {p \in products : p.slug = slug} = {} THEN {}
    ELSE {CHOOSE p \in products :
            /\ p.slug = slug
            /\ \A o \in products : o.slug = slug => p.id <= o.id}

\* createProduct: the row, or "throws" on PostgreSQL's unique violation
createProduct(product) ==
    IF storageKind = "mem"
    THEN [ok |-> TRUE,
          row |-> [id |-> productIdCounter, name |-> product.name,
                   slug |-> IF product.slug # <<>> THEN product.slug
                            ELSE SlugOfName(product.name),
                   price |-> product.price]]
    ELSE IF SlugTaken(product.slug, 0) THEN [ok |-> FALSE]
    ELSE [ok |-> TRUE,
          row |-> [id |-> productIdCounter, name |-> product.name,
                   slug |-> product.slug, price |-> DecimalColumn(product.price)]]

\* updateProduct(id, product) on the row it finds
updateProduct(existing, product) ==
    IF storageKind = "mem"
    THEN [ok |-> TRUE,
          row |-> [id |-> existing.id,
                   name |-> IF Has(product, "name") THEN product.name ELSE existing.name,
                   slug |-> IF Has(product, "slug") /\ product.slug # <<>>
                            THEN product.slug ELSE existing.slug,
                   price |-> IF Has(product, "price") THEN product.price
                             ELSE existing.price]]
    ELSE IF Has(product, "slug") /\ SlugTaken(product.slug, existing.id)
    THEN [ok |-> FALSE]
    ELSE [ok |-> TRUE,
          row |-> [id |-> existing.id,
                   name |-> IF Has(product, "name") THEN product.name ELSE existing.name,
                   slug |-> IF Has(product, "slug") THEN product.slug ELSE existing.slug,
                   price |-> IF Has(product, "price") THEN DecimalColumn(product.price)
                             ELSE existing.price]]

deleteProduct(id) == {p \in products : p.id # id}

\* GET /api/products/:id
GetProduct(id) ==
    /\ shopLast' = [op |-> "GET /api/products/:id",
                    code |-> IF id = NaN THEN 400
                             ELSE IF getProductById(id) = {} THEN 404 ELSE 200,
                    id |-> id, valid |-> TRUE]
    /\ UNCHANGED <<offShop, products, productIdCounter, slugAtCreation, contacts>>

\* GET /api/products/slug/:slug
GetProductBySlug(slug) ==
    /\ shopLast' = [op |-> "GET /api/products/slug/:slug",
                    code |-> IF getProductBySlug(slug) = {} THEN 404 ELSE 200,
                    slug |-> slug, valid |-> TRUE]
    /\ UNCHANGED <<offShop, products, productIdCounter, slugAtCreation, contacts>>

\* POST /api/admin/products
PostAdminProduct(body) ==
    IF ~insertProductSchema(body)
    THEN /\ shopLast' = [op |-> "POST /api/admin/products", code |-> 400,
                         valid |-> FALSE]
         /\ UNCHANGED <<offShop, products, productIdCounter, slugAtCreation, contacts>>
    ELSE /\ productIdCounter <= MaxProducts
         /\ productIdCounter' = productIdCounter + 1
         /\ IF createProduct(body).ok
            THEN /\ products' = products \cup {createProduct(body).row}
                 /\ slugAtCreation' =
                        (productIdCounter :> createProduct(body).row.slug) @@ slugAtCreation
            ELSE UNCHANGED <<products, slugAtCreation>>
         /\ shopLast' = [op |-> "POST /api/admin/products",
                         code |-> IF createProduct(body).ok THEN 201 ELSE 500,
                         valid |-> TRUE]
         /\ UNCHANGED <<offShop, contacts>>

\* PUT /api/admin/products/:id
PutAdminProduct(id, body) ==
    IF id = NaN \/ getProductById(id) = {}
    THEN /\ shopLast' = [op |-> "PUT /api/admin/products/:id",
                         code |-> IF id = NaN THEN 400 ELSE 404,
                         id |-> id, valid |-> PartialInsertProduct(body)]
         /\ UNCHANGED <<offShop, products, productIdCounter, slugAtCreation, contacts>>
    ELSE \E existing \in getProductById(id) :
            /\ products' = IF updateProduct(existing, body).ok
                           THEN (products \ {existing})
                                \cup {updateProduct(existing, body).row}
                           ELSE products
            /\ shopLast' = [op |-> "PUT /api/admin/products/:id",
                            code |-> IF updateProduct(existing, body).ok THEN 200 ELSE 500,
                            id |-> id, valid |-> PartialInsertProduct(body)]
            /\ UNCHANGED <<offShop, productIdCounter, slugAtCreation, contacts>>

\* a DELETE /api/admin/products/:id that takes the product's cart lines along
DeleteAdminProductCascading(id) ==
    /\ products' = IF id = NaN THEN products ELSE deleteProduct(id)
    /\ cartItems' = {i \in cartItems : i.productId # id}
    /\ shopLast' = [op |-> "DELETE /api/admin/products/:id",
                    code |-> IF id = NaN THEN 400
                             ELSE IF getProductById(id) = {} THEN 404 ELSE 204,
                    id |-> id, valid |-> TRUE]
    /\ UNCHANGED <<storageKind, cartItemIdCounter, sessionCounter, reqs, last, trail,
                   adminAll, query, found, clientAll, retryAll, methodAll, dashAll,
                   productIdCounter, slugAtCreation, contacts>>

\* DELETE /api/admin/products/:id.  On PostgreSQL cart_items.product_id
\* references products.id (shared/schema.ts), so the delete of a product
\* that a cart line refers to throws and the route answers 500.
DeleteAdminProduct(id) ==
    LET referenced == storageKind = "pg" /\ \E i \in cartItems : i.productId = id
    IN  /\ products' = IF id = NaN \/ referenced THEN products ELSE deleteProduct(id)
        /\ shopLast' = [op |-> "DELETE /api/admin/products/:id",
                        code |-> IF id = NaN THEN 400
                                 ELSE IF getProductById(id) = {} THEN 404
                                 ELSE IF referenced THEN 500 ELSE 204,
                        id |-> id, valid |-> TRUE]
        /\ UNCHANGED <<offShop, productIdCounter, slugAtCreation, contacts>>

\* insertContactSchema.parse
insertContactSchema(body) == Has(body, "name") /\ Has(body, "message")

\* createContact: const id = this.contactIdCounter++
createContact(contact) ==
    Append(contacts, [id |-> Len(contacts) + 1, name |-> contact.name,
                      message |-> contact.message])

\* POST /api/contact
PostContact(body) ==
    /\ insertContactSchema(body) => Len(contacts) < MaxContacts
    /\ contacts' = IF insertContactSchema(body) THEN createContact(body) ELSE contacts
    /\ shopLast' = [op |-> "POST /api/contact",
                    code |-> IF insertContactSchema(body) THEN 201 ELSE 400,
                    valid |-> insertContactSchema(body)]
    /\ UNCHANGED <<offShop, products, productIdCounter, slugAtCreation>>

\* the store starts empty or with one product
ShopInit ==
    /\ storageKind \in {"mem", "pg"}
    /\ CartIdle
    /\ AdminIdle
    /\ ClientIdle
    /\ RetryIdle
    /\ DashIdle
    /\ query = <<>>
    /\ found = [done |-> FALSE]
    /\ contacts = <<>>
    /\ shopLast = NoAnswer
    /\ \/ /\ products = {}
          /\ productIdCounter = 1
          /\ slugAtCreation = <<>>
       \/ /\ products = {[id |-> 1, name |-> <<"A">>, slug |-> <<"a">>,
                           price |-> TextPrice("100")]}
          /\ productIdCounter = 2
          /\ slugAtCreation = (1 :> <<"a">>)

ShopNext ==
    \/ \E id \in (1 .. MaxProducts) \cup {NaN} : GetProduct(id)
    \/ \E slug \in SlugTexts : GetProductBySlug(slug)
    \/ \E body \in ProductBodies : PostAdminProduct(body)
    \/ \E id \in (1 .. MaxProducts) \cup {NaN}, body \in ProductBodies : PutAdminProduct(id, body)
    \/ \E id \in (1 .. MaxProducts) \cup {NaN} : DeleteAdminProduct(id)
    \/ \E body \in {[name |-> "n", message |-> "m"], [name |-> "n"]} : PostContact(body)

ShopSpec == ShopInit /\ [][ShopNext]_vars

\* ---------------------------------------------------------------------
\* A shopper's cart while an admin deletes products: POST /api/cart,
\* DELETE /api/admin/products/:id behind the gate, CartProvider's fetchCart
\* and the summary the checkout page computes from what it fetched
\* ---------------------------------------------------------------------
\* the orders in which storage.getCartItems gives a session's rows: insertion
\* order from MemStorage's Map, any order from a select without ORDER BY
CartOrderings(rows) ==
    {lines \in [1 .. Cardinality(rows) -> rows] :
        /\ \A m, n \in 1 .. Cardinality(rows) : m # n => lines[m] # lines[n]
        /\ storageKind = "mem"
              => \A m, n \in 1 .. Cardinality(rows) : m < n => lines[m].id < lines[n].id}

\* { ...item, product }: JSON leaves out a product that is undefined
WithProduct(item) ==
    IF getProductById(item.productId) = {} THEN item
    ELSE item @@ [product |-> ProductById(item.productId)]

\* CartProvider's fetchCart: GET /api/cart, then setCartItems(data)
FetchCart(h) ==
    /\ GetCartHandler(h)
    /\ \E lines \in CartOrderings(getCartItems(SessionOf(h))) :
          clientCart' = [n \in 1 .. Len(lines) |-> WithProduct(lines[n])]
    /\ summary' = [done |-> FALSE]
    /\ UNCHANGED <<shown, trail>>

\* localStorage.getItem("cartSessionId") || "" of the one browser there is:
\* the id the server issued to it, 0 before the first answer
savedSessionId == sessionCounter

\* two products on sale, no cart yet
DeleteProductInit ==
    /\ storageKind \in {"mem", "pg"}
    /\ CartIdle
    /\ AdminIdle
    /\ \E p1 \in PricedRows(1, {"100"}, {"null"}),
          p2 \in PricedRows(2, {"60"}, {"null"}) : products = {p1, p2}
    /\ query = <<>>
    /\ found = [done |-> FALSE]
    /\ ClientIdle
    /\ ShopIdle
    /\ RetryIdle
    /\ DashIdle

DeleteProductNext ==
    \/ \E body \in RaceBodies :
          /\ getProductById(body.productId) # {}
          /\ PostCart(savedSessionId, body)
    \/ \E id \in ProductIds \cup {NaN} : DeleteAdminProduct(id)
    \/ FetchCart(savedSessionId)
    \/ Summarise

DeleteProductSpec == DeleteProductInit /\ [][DeleteProductNext]_vars

(***************************************************************************)
(* CartProvider (client/src/contexts/CartContext.tsx) against the cart     *)
(* routes: one browser, whose requests carry the session id it saved.      *)
(***************************************************************************)
SelectableWeights == {"none", "500g", "1kg"}
MaxClientLines == 3     \* entries the client's cartItems is followed up to

\* JSON.stringify({ selectedWeight })
MetaText(selectedWeight) ==
    IF selectedWeight = "500g" THEN "{selectedWeight:500g}" ELSE "{selectedWeight:1kg}"

\* the body of addToCart's POST: JSON.stringify drops a metaData of undefined
ProviderBody(productId, quantity, selectedWeight) ==
    IF selectedWeight = "none"
    THEN [productId |-> productId, quantity |-> quantity]
    ELSE [productId |-> productId, quantity |-> quantity,
          metaData |-> MetaText(selectedWeight)]

\* itemWeight of addToCart's loop: JSON.parse(item.metaData).selectedWeight
\* when the entry has a metaData, undefined otherwise or when the parse throws
ItemWeight(item) ==
    IF Has(item, "metaData") /\ SelectedWeightOf(item.metaData) \in {"500g", "1kg"}
    THEN SelectedWeightOf(item.metaData)
    ELSE "none"

\* (itemWeight === selectedWeight) || (!itemWeight && !selectedWeight)
SameWeight(item, selectedWeight) == ItemWeight(item) = selectedWeight

\* the index of the entry addToCart's loop stops at, 0 when it finds none
ExistingIndex(productId, selectedWeight) ==
    LET hits == {n \in 1 .. Len(clientCart) :
                    /\ clientCart[n].productId = productId
                    /\ SameWeight(clientCart[n], selectedWeight)}
    IN  IF hits = {} THEN 0 ELSE CHOOSE n \in hits : \A k \in hits : n <= k

\* CartProvider.addToCart(productId, quantity, selectedWeight)
ProviderAddToCart(productId, quantity, selectedWeight) ==
    /\ Len(clientCart) < MaxClientLines
    /\ PostCartHandler(savedSessionId, ProviderBody(productId, quantity, selectedWeight))
    /\ IF last'.code \notin {200, 201}
       THEN UNCHANGED clientCart
       ELSE LET newItem == CHOOSE i \in cartItems' : i \notin cartItems
                n == ExistingIndex(productId, selectedWeight)
            IN  clientCart' =
                    IF n # 0
                    THEN [clientCart EXCEPT ![n].quantity = @ + quantity]
                    ELSE Append(clientCart,
                                newItem @@ [product |->
                                    NewLine(productId, quantity, selectedWeight).product])
    /\ summary' = [done |-> FALSE]
    /\ UNCHANGED <<shown, trail>>

\* cartItems.filter / cartItems.map over the client's entries
FilterLines(lines, Keep(_)) ==
    LET F[n \in 0 .. Len(lines)] ==
            IF n = 0 THEN <<>>
            ELSE IF Keep(lines[n]) THEN Append(F[n - 1], lines[n]) ELSE F[n - 1]
    IN  F[Len(lines)]

\* CartProvider.updateCartItem(itemId, quantity)
ProviderUpdateCartItem(itemId, quantity) ==
    /\ PutCartItemHandler(itemId, [quantity |-> quantity])
    /\ clientCart' = IF last'.code # 200 THEN clientCart
                     ELSE [n \in 1 .. Len(clientCart) |->
                             IF clientCart[n].id = itemId
                             THEN [clientCart[n] EXCEPT !.quantity = quantity]
                             ELSE clientCart[n]]
    /\ summary' = [done |-> FALSE]
    /\ UNCHANGED <<shown, trail>>

\* CartProvider.removeFromCart(itemId)
ProviderRemoveFromCart(itemId) ==
    /\ DeleteCartItemHandler(itemId)
    /\ clientCart' = IF last'.code # 204 THEN clientCart
                     ELSE LET Keep(item) == item.id # itemId
                          IN  FilterLines(clientCart, Keep)
    /\ summary' = [done |-> FALSE]
    /\ UNCHANGED <<shown, trail>>

\* CartProvider.clearCart()
ProviderClearCart ==
    /\ DeleteCartHandler(savedSessionId)
    /\ clientCart' = IF last'.code # 204 THEN clientCart ELSE <<>>
    /\ summary' = [done |-> FALSE]
    /\ UNCHANGED <<shown, trail>>

MirrorInit ==
    /\ storageKind \in {"mem", "pg"}
    /\ CartIdle
    /\ AdminIdle
    /\ \E p1 \in PricedRows(1, {"100"}, {"null", "500g:60,1kg:110"}),
          p2 \in PricedRows(2, {"60"}, {"null"}) : products = {p1, p2}
    /\ query = <<>>
    /\ found = [done |-> FALSE]
    /\ ClientIdle
    /\ ShopIdle
    /\ RetryIdle
    /\ DashIdle

MirrorNext ==
    \/ FetchCart(savedSessionId)
    \/ \E productId \in ProductIds, quantity \in 1 .. MaxLineQuantity,
          selectedWeight \in SelectableWeights :
          ProviderAddToCart(productId, quantity, selectedWeight)
    \/ \E itemId \in 1 .. MaxCartItems, quantity \in 0 .. MaxQuantity :
          ProviderUpdateCartItem(itemId, quantity)
    \/ \E itemId \in 1 .. MaxCartItems : ProviderRemoveFromCart(itemId)
    \/ ProviderClearCart

MirrorSpec == MirrorInit /\ [][MirrorNext]_vars

\* ---------------------------------------------------------------------
\* The admin Dashboard's bulk actions (client/src/pages/admin/Dashboard.tsx)
\* against the product routes, for requests that carry the admin key
\* ---------------------------------------------------------------------
\* the sets of requests of a bulk action whose fetch rejects (a network
\* error: the request does not reach the server)
Rejections == SUBSET selectedProductIds

\* what fetch gives for the request of one id: 0 when it rejects, else the
\* status of the route's answer, which is 404 for a product that is gone
BulkAnswers(rejected, ok) ==
    [id \in selectedProductIds |->
        IF id \in rejected THEN 0
        ELSE IF getProductById(id) = {} THEN 404 ELSE ok]

\* fetchProducts: setProducts(await (await fetch("/api/products")).json())
FetchProducts ==
    /\ dashProducts' = products
    /\ UNCHANGED <<offDash, products, selectedProductIds, toast>>

\* handleCheckboxChange(productId, checked) on a row of the table
HandleCheckboxChange(productId, checked) ==
    /\ \E p \in dashProducts : p.id = productId
    /\ selectedProductIds' = IF checked THEN selectedProductIds \cup {productId}
                              ELSE selectedProductIds \ {productId}
    /\ UNCHANGED <<offDash, products, dashProducts, toast>>

\* bulkDeleteProducts: await Promise.all(selectedProductIds.map(id => fetch(DELETE)));
\* Promise.all rejects when a fetch rejects, and resolves whatever the
\* statuses of the answers are
BulkDeleteProducts(rejected) ==
    /\ selectedProductIds # {}
    /\ products' = {p \in products : p.id \notin selectedProductIds \ rejected}
    /\ IF rejected = {}
       THEN /\ dashProducts' = {p \in dashProducts : p.id \notin selectedProductIds}
            /\ selectedProductIds' = {}
            /\ toast' = [title |-> "Success", op |-> "bulkDeleteProducts",
                         answers |-> BulkAnswers(rejected, 204)]
       ELSE /\ toast' = [title |-> "Error", op |-> "bulkDeleteProducts",
                         answers |-> BulkAnswers(rejected, 204)]
            /\ UNCHANGED <<dashProducts, selectedProductIds>>
    /\ UNCHANGED offDash

\* bulkSetFeatured(featured): the same with PUT { featured }; the route
\* writes the field to the row it finds
BulkSetFeatured(featured, rejected) ==
    /\ selectedProductIds # {}
    /\ products' = {IF p.id \in selectedProductIds \ rejected
                     THEN [p EXCEPT !.featured = featured] ELSE p : p \in products}
    /\ IF rejected = {}
       THEN /\ dashProducts' = {IF p.id \in selectedProductIds
                                 THEN [p EXCEPT !.featured = featured] ELSE p :
                                 p \in dashProducts}
            /\ selectedProductIds' = {}
            /\ toast' = [title |-> "Success", op |-> "bulkSetFeatured",
                         answers |-> BulkAnswers(rejected, 200)]
       ELSE /\ toast' = [title |-> "Error", op |-> "bulkSetFeatured",
                         answers |-> BulkAnswers(rejected, 200)]
            /\ UNCHANGED <<dashProducts, selectedProductIds>>
    /\ UNCHANGED offDash

\* the sample products of the store, the Dashboard not yet mounted
DashInit ==
    /\ storageKind \in {"mem", "pg"}
    /\ CartIdle
    /\ AdminIdle
    /\ products = {[id |-> id, name |-> <<"a">>, featured |-> FALSE] : id \in ProductIds}
    /\ query = <<>>
    /\ found = [done |-> FALSE]
    /\ ClientIdle
    /\ ShopIdle
    /\ RetryIdle
    /\ DashIdle

\* the Dashboard, and a second admin session that deletes products
DashNext ==
    \/ FetchProducts
    \/ \E productId \in ProductIds, checked \in BOOLEAN :
          HandleCheckboxChange(productId, checked)
    \/ \E rejected \in Rejections : BulkDeleteProducts(rejected)
    \/ \E featured \in BOOLEAN, rejected \in Rejections : BulkSetFeatured(featured, rejected)
    \/ \E id \in ProductIds : DeleteAdminProduct(id)

DashSpec == DashInit /\ [][DashNext]_vars

\* ---------------------------------------------------------------------
\* PostgreSQLStorage.executeWithRetry: one call of a wrapped operation,
\* step by step
\* ---------------------------------------------------------------------

\* private maxRetries: number = 5
maxRetries == 5

\* private retryDelay: number = 2000
retryDelay == 2000

\* const currentDelay = this.retryDelay * (this.maxRetries - retries + 1)
currentDelay == retryDelay * (maxRetries - retries + 1)

\* invocations the model follows before it stops a call
MaxInvocations == 7

\* the substrings executeWithRetry looks for in error.message
ConnectionErrorTexts ==
    {<<"terminating connection">>, <<"Connection terminated">>, <<"Connection closed">>,
     <<"connection lost">>, <<"could not connect">>, <<"timeout">>, <<"socket hang up">>,
     <<"ECONNREFUSED">>, <<"ETIMEDOUT">>, <<"ENOTFOUND">>}

\* what the operation may throw: an Error or another value, with its
\* message as a sequence of pieces of text
Throwables ==
    [isError : {TRUE},
     message : {<<"read ", "ETIMEDOUT">>, <<"Connection terminated", " unexpectedly">>,
                <<"Timeout", " expired">>, <<"syntax error">>}]
    \cup [isError : {FALSE}, message : {<<"timeout">>}]

\* an isConnectionError that does not ask for an Error
isConnectionErrorOfAnyValue(error) ==
    \E part \in ConnectionErrorTexts : includes(error.message, part)

\* const isConnectionError = error instanceof Error && (error.message.includes(...) || ...)
isConnectionError(error) ==
    /\ error.isError
    /\ \E part \in ConnectionErrorTexts : includes(error.message, part)

\* a storage method calls executeWithRetry(operation)
RetryCall ==
    /\ retryPc \in {"idle", "settled"}
    /\ retryPc' = "invoke"
    /\ retries' = maxRetries
    /\ invocations' = 0
    /\ reinits' = 0
    /\ waited' = 0
    /\ lastError' = [by |-> 0]
    /\ outcome' = [kind |-> "none"]
    /\ UNCHANGED offRetry

\* return await operation(): it resolves
RetryInvokeResolves ==
    /\ retryPc = "invoke"
    /\ invocations < MaxInvocations
    /\ invocations' = invocations + 1
    /\ outcome' = [kind |-> "return", by |-> invocations + 1]
    /\ retryPc' = "settled"
    /\ UNCHANGED <<offRetry, retries, reinits, waited, lastError>>

\* return await operation(): it throws
RetryInvokeThrows(thrown) ==
    /\ retryPc = "invoke"
    /\ invocations < MaxInvocations
    /\ invocations' = invocations + 1
    /\ lastError' = [by |-> invocations + 1, isError |-> thrown.isError,
                     message |-> thrown.message]
    /\ retryPc' = "caught"
    /\ UNCHANGED <<offRetry, retries, reinits, waited, outcome>>

\* throw error, for other errors or when out of retries
RetryRethrow ==
    /\ retryPc = "caught"
    /\ ~(isConnectionError(lastError) /\ retries > 0)
    /\ outcome' = [kind |-> "throw", error |-> lastError]
    /\ retryPc' = "settled"
    /\ UNCHANGED <<offRetry, retries, invocations, reinits, waited, lastError>>

\* a reconnect whose recursive call is given the same number of retries
RetryReconnectKeepingRetries(initThrows) ==
    /\ retryPc = "caught"
    /\ isConnectionError(lastError) /\ retries > 0
    /\ reinits' = reinits + 1
    /\ retryPc' = "invoke"
    /\ UNCHANGED <<offRetry, retries, invocations, waited, lastError, outcome>>

\* the reconnect branch: the delay, client.end (its errors are swallowed),
\* initConnection, then executeWithRetry(operation, retries - 1); when
\* initConnection throws, the same after a second delay if retries > 1,
\* else throw error
RetryReconnect(initThrows) ==
    /\ retryPc = "caught"
    /\ isConnectionError(lastError) /\ retries > 0
    /\ reinits' = reinits + 1
    /\ waited' = waited + currentDelay
                  + (IF initThrows /\ retries > 1 THEN currentDelay * 2 ELSE 0)
    /\ IF ~initThrows \/ retries > 1
       THEN /\ retries' = retries - 1
            /\ retryPc' = "invoke"
            /\ UNCHANGED outcome
       ELSE /\ outcome' = [kind |-> "throw", error |-> lastError]
            /\ retryPc' = "settled"
            /\ UNCHANGED retries
    /\ UNCHANGED <<offRetry, invocations, lastError>>

RetryInit ==
    /\ storageKind = "pg"
    /\ CartIdle
    /\ AdminIdle
    /\ CatalogIdle
    /\ ClientIdle
    /\ ShopIdle
    /\ RetryIdle
    /\ DashIdle

RetryStep ==
    \/ RetryInvokeResolves
    \/ \E thrown \in Throwables : RetryInvokeThrows(thrown)
    \/ RetryRethrow
    \/ \E initThrows \in BOOLEAN : RetryReconnect(initThrows)

RetryNext ==
    \/ RetryCall
    \/ RetryStep

RetrySpec == RetryInit /\ [][RetryNext]_vars

\* the same, where a call that can take a step takes one
RetryLiveSpec == RetrySpec /\ WF_vars(RetryStep)

\* ---------------------------------------------------------------------
\* One call of a PostgreSQLStorage method against a database whose queries
\* can fail: the method's operation inside executeWithRetry
\* ---------------------------------------------------------------------
\* the methods followed, searchProducts with an empty and a non-empty query
StorageCalls ==
    [name : {"getUser", "getProducts", "isAdmin", "verifyOtp", "getCartItems",
             "getCartItemWithProduct"}]
    \cup [name : {"searchProducts"}, query : {<<>>, <<"a">>}]

\* the operation awaits (or returns) another method's wrapped call:
\* isAdmin and verifyOtp call this.getUser, searchProducts with !query
\* returns this.getProducts()
CallsWrappedMethod(call) ==
    \/ call.name \in {"isAdmin", "verifyOtp"}
    \/ call.name = "searchProducts" /\ call.query = <<>>

\* the operation has its query inside a try whose catch returns [] or undefined
CatchesItsQuery(call) == call.name \in {"getCartItems", "getCartItemWithProduct"}

\* a route calls the method: executeWithRetry(operation) with the default retries
MethodCall(call) ==
    /\ retryPc \in {"idle", "settled"}
    /\ method' = call
    /\ retryPc' = "invoke"
    /\ retries' = maxRetries
    /\ innerRetries' = maxRetries
    /\ invocations' = 0
    /\ queries' = 0
    /\ reinits' = 0
    /\ waited' = 0
    /\ lastError' = [by |-> 0]
    /\ outcome' = [kind |-> "none"]
    /\ swallowed' = FALSE
    /\ UNCHANGED offMethod

\* await operation(): the operation runs up to the answer of its query.  In
\* an operation that calls a wrapped method the query is the first one of
\* that method's own executeWithRetry, started with the default retries.
MethodInvoke(answer) ==
    /\ retryPc = "invoke"
    /\ invocations' = invocations + 1
    /\ queries' = queries + 1
    /\ innerRetries' = maxRetries
    /\ IF Has(answer, "rows")
       THEN /\ outcome' = [kind |-> "return", by |-> invocations + 1, value |-> "rows"]
            /\ retryPc' = "settled"
            /\ UNCHANGED <<lastError, swallowed>>
       ELSE IF CatchesItsQuery(method)
       THEN /\ outcome' = [kind |-> "return", by |-> invocations + 1, value |-> "nothing"]
            /\ retryPc' = "settled"
            /\ swallowed' = TRUE
            /\ lastError' = [by |-> invocations + 1, isError |-> answer.isError,
                             message |-> answer.message]
       ELSE /\ lastError' = [by |-> invocations + 1, isError |-> answer.isError,
                             message |-> answer.message]
            /\ retryPc' = IF CallsWrappedMethod(method) THEN "innerCaught" ELSE "caught"
            /\ UNCHANGED <<outcome, swallowed>>
    /\ UNCHANGED <<offMethod,
                   method, retries, reinits, waited>>

\* the wrapped method inside the operation sends its query again
InnerInvoke(answer) ==
    /\ retryPc = "innerInvoke"
    /\ queries' = queries + 1
    /\ IF Has(answer, "rows")
       THEN /\ outcome' = [kind |-> "return", by |-> invocations, value |-> "rows"]
            /\ retryPc' = "settled"
            /\ UNCHANGED lastError
       ELSE /\ lastError' = [by |-> invocations, isError |-> answer.isError,
                             message |-> answer.message]
            /\ retryPc' = "innerCaught"
            /\ UNCHANGED outcome
    /\ UNCHANGED <<offMethod,
                   method, retries, innerRetries, invocations, reinits, waited, swallowed>>

\* the wrapped method rethrows: the operation rejects with that error and
\* the executeWithRetry of the method called catches it
InnerRethrow ==
    /\ retryPc = "innerCaught"
    /\ ~(isConnectionError(lastError) /\ innerRetries > 0)
    /\ retryPc' = "caught"
    /\ UNCHANGED <<offMethod,
                   methodAll, retries, invocations, reinits, waited, lastError, outcome>>

\* the reconnect branch of the wrapped method inside the operation
InnerReconnect(initThrows) ==
    /\ retryPc = "innerCaught"
    /\ isConnectionError(lastError) /\ innerRetries > 0
    /\ reinits' = reinits + 1
    /\ waited' = waited + retryDelay * (maxRetries - innerRetries + 1)
                        * (IF initThrows /\ innerRetries > 1 THEN 3 ELSE 1)
    /\ IF ~initThrows \/ innerRetries > 1
       THEN /\ innerRetries' = innerRetries - 1
            /\ retryPc' = "innerInvoke"
       ELSE /\ retryPc' = "caught"
            /\ UNCHANGED innerRetries
    /\ UNCHANGED <<offMethod,
                   method, queries, swallowed, retries, invocations, lastError, outcome>>

\* answers of the database to a query: rows, or an error
QueryAnswers == {[rows |-> TRUE]} \cup Throwables

MethodNext ==
    \/ \E call \in StorageCalls : MethodCall(call)
    \/ \E answer \in QueryAnswers : MethodInvoke(answer)
    \/ \E answer \in QueryAnswers : InnerInvoke(answer)
    \/ InnerRethrow
    \/ \E initThrows \in BOOLEAN : InnerReconnect(initThrows)
    \/ RetryRethrow
    \/ \E initThrows \in BOOLEAN : RetryReconnect(initThrows)

MethodSpec == RetryInit /\ [][MethodNext]_vars

\* ---------------------------------------------------------------------
\* Properties of the cart routes
\* ---------------------------------------------------------------------

RowsOf(sessionId, productId) ==
    {i \in cartItems : i.sessionId = sessionId /\ i.productId = productId}

\* two POSTs in a row for one (S, P), the first of which created the row
TwoAdds == Len(trail) = 2 /\ trail[1].given /\ trail[2].given

MergedInto(q) ==
    /\ Cardinality(RowsOf(trail[2].sessionId, trail[2].productId)) = 1
    /\ \A i \in RowsOf(trail[2].sessionId, trail[2].productId) : i.quantity = q
    /\ trail[2].code = 200
    /\ trail[2].counter = trail[1].counter

\* C1: after two sequential POST /api/cart requests for (S, P) with the same
\* weight metadata (or none) and quantities q1 and q2, storage holds exactly
\* one line for (S, P, that metadata), its quantity is q1 + q2, and the
\* second request created no line.
C1_SameAddOneLine ==
    (TwoAdds /\ trail[1].meta = trail[2].meta)
    => /\ MergedInto(trail[1].quantity + trail[2].quantity)
       /\ \A i \in RowsOf(trail[2].sessionId, trail[2].productId) :
            i.metaData = trail[2].meta

\* two adds of quantity 1 and 2 with the label 500g have been merged
C1_Witness ==
    /\ TwoAdds
    /\ trail[1].meta = "{selectedWeight:500g}" /\ trail[2].meta = "{selectedWeight:500g}"
    /\ trail[1].quantity = 1 /\ trail[2].quantity = 2
    /\ trail[2].code = 200

\* C2: after two sequential POST /api/cart requests for (S, P) with two
\* different selected-weight labels, storage holds two lines for (S, P), one
\* per label, each with the quantity of its own request.
C2_DifferentLabelsTwoLines ==
    (TwoAdds /\ trail[1].meta # NoMeta /\ trail[2].meta # NoMeta
             /\ SelectedWeightOf(trail[1].meta) # SelectedWeightOf(trail[2].meta)
             /\ trail[1].quantity >= 1 /\ trail[2].quantity >= 1)
    => /\ trail[2].code = 201
       /\ \A n \in {1, 2} :
            \E i \in RowsOf(trail[2].sessionId, trail[2].productId) :
                /\ i.metaData = trail[n].meta
                /\ i.quantity = trail[n].quantity

\* C4: DELETE /api/cart for session S removes every line of S and leaves
\* every line of every other session as it was, whether or not S has lines.
C4_ClearCartFrame ==
    [][(last'.op = "DELETE /api/cart" /\ last'.code = 204)
       => /\ \A i \in cartItems' : i.sessionId # last'.sessionId
          /\ \A i \in cartItems : i.sessionId # last'.sessionId => i \in cartItems'
          /\ cartItems' \subseteq cartItems]_vars

C4_Witness ==
    /\ last.op = "DELETE /api/cart"
    /\ last.code = 204
    /\ last.removed >= 1
    /\ \E i \in cartItems : i.sessionId # last.sessionId

\* C19: a GET or POST /api/cart without a (non-empty) session-id header
\* creates a fresh id, returns it in the session-id response header and
\* files the request's cart line under it; a request with a session-id
\* header is served under exactly that id and gets no new id; a GET returns
\* exactly the lines stored under the id it is served under, so a client
\* that echoes its id reads back the lines filed under it.
C19_SessionIssuedOnFirstContact ==
    [][trail' # <<>>
       => LET served == trail'[1]
          IN  /\ served.given = 0
                   => /\ sessionCounter' = sessionCounter + 1
                      /\ served.sessionId = sessionCounter'
                      /\ served.header = served.sessionId
                      /\ \A i \in cartItems : i.sessionId # served.sessionId
              /\ served.given # 0
                   => /\ served.sessionId = served.given
                      /\ served.header = 0
                      /\ sessionCounter' = sessionCounter
              /\ served.op = "POST /api/cart"
                   => /\ \A i \in cartItems' :
                            i \notin cartItems => i.sessionId = served.sessionId
                      /\ \A i \in cartItems :
                            i.sessionId # served.sessionId => i \in cartItems'
                      /\ served.code = 201
                            => \E i \in cartItems' : /\ i.id = cartItemIdCounter
                                                      /\ i.sessionId = served.sessionId
                                                      /\ i \notin cartItems
              /\ served.op = "GET /api/cart"
                   => /\ cartItems' = cartItems
                      /\ served.rows = {i \in cartItems : i.sessionId = served.sessionId}
      ]_vars

\* a client echoing id 1 reads its line back while session 2 has a line too
C19_Witness ==
    /\ trail # <<>>
    /\ trail[1].op = "GET /api/cart"
    /\ trail[1].given = 1
    /\ trail[1].header = 0
    /\ trail[1].rows # {}
    /\ \E i \in cartItems : i.sessionId = 2

\* C3: the write of POST /api/cart acts on what its own lookup returned and
\* on nothing else: a request whose lookup found no line inserts a line even
\* when another request has inserted one for the same session and product in
\* between, so two lines for one combination are reachable.
C3_WriteIsUnguarded ==
    [][\A r \in RequestSlots :
         (reqs[r].phase = "read" /\ reqs'[r].phase = "idle" /\ reqs[r].existing.id = 0)
         => /\ Cardinality(cartItems') = Cardinality(cartItems) + 1
            /\ cartItems \subseteq cartItems']_vars

C3_Witness ==
    \E i, j \in cartItems :
        /\ i.id # j.id
        /\ i.sessionId = j.sessionId
        /\ i.productId = j.productId
        /\ i.metaData = j.metaData

\* ---------------------------------------------------------------------
\* Properties of the admin gate and the admin session table
\* ---------------------------------------------------------------------

\* the gate would accept this token: it is in the table, authenticated, admin
Accepted(token) ==
    \E s \in adminSessions : s.token = token /\ s.isAuthenticated /\ s.isAdmin

\* C5: a request behind the isAdmin gate reaches its handler if and only if
\* it carries the correct x-admin-key or its session token is in the table
\* with isAuthenticated and isAdmin true; the correct key is admitted whatever
\* token comes with it, and a request with neither gets 401/403 and its
\* handler does not run.
C5_GateAdmitsKeyOrSession ==
    adminLast.op = "admin route"
    => /\ adminLast.handlerRan
            <=> (adminLast.key = adminSecret \/ Accepted(adminLast.sessionId))
       /\ Cardinality(adminLast.presented) = 1
            => (adminLast.handlerRan
                  <=> \/ adminLast.key = adminSecret
                      \/ \E t \in adminLast.presented : Accepted(t))
       /\ adminLast.key = adminSecret => adminLast.handlerRan
       /\ adminLast.handlerRan => adminLast.code = 200
       /\ ~adminLast.handlerRan => adminLast.code \in {401, 403}

C5_Witness ==
    /\ adminLast.op = "admin route"
    /\ adminLast.handlerRan
    /\ adminLast.key = "guess"
    /\ adminLast.presented = {2}
    /\ \E s \in adminSessions : s.token = 1 /\ ~s.isAdmin

\* C6: while no request has supplied an admin password the admin session
\* table is empty, so no token the gate accepts exists.
C6_SessionOnlyAfterPassword ==
    ~pwSupplied => (adminSessions = {} /\ \A t \in 1 .. MaxTokens : ~Accepted(t))

ContainsNoCase(text, part) ==
    \E i \in 0 .. Len(text) - Len(part) :
        \A k \in 1 .. Len(part) : LowerChar(text[i + k]) = LowerChar(part[k])

\* C8: searchProducts(q) returns exactly the products whose name,
\* description or category contains q as a substring compared without regard
\* to case, and every product for the empty text, in both stores.
C8_SearchIsSubstringMatch ==
    found.done
    => found.rows = {p \in products : \/ ContainsNoCase(p.name, query)
                                      \/ ContainsNoCase(p.description, query)
                                      \/ ContainsNoCase(p.category, query)}

\* the OTP columns of the users table
OtpColumns(table) ==
    [id \in DOMAIN table |-> <<table[id].otpSecret, table[id].otpEnabled>>]

\* C20: an OTP secret is committed only by a successful verify:
\* POST /api/admin/setup-otp never changes any user's stored otpSecret or
\* otpEnabled; POST /api/admin/verify-setup changes them only when the
\* presented token is valid for the presented secret, and then the secret
\* stored is the presented one with OTP enabled, so that a verify-setup
\* with an invalid token or a missing field leaves every user unchanged; no
\* other request changes them.
C20_OtpCommittedOnVerify ==
    [][/\ adminLast'.op = "setup-otp" => users' = users
       /\ (adminLast'.op = "verify-setup" /\ adminLast'.code # 200) => users' = users
       /\ (adminLast'.op = "verify-setup" /\ users' # users)
            => /\ \E body \in [userId : UserIds, token : OtpTokens, secret : OtpSecrets] :
                    AdminVerifySetup(body)
               /\ \A body \in [userId : UserIds, token : OtpTokens, secret : OtpSecrets] :
                    AdminVerifySetup(body)
                    => /\ body.userId # 0 /\ body.token # 0 /\ body.secret # 0
                       /\ body.token = TotpOf(body.secret)
                       /\ \A id \in DOMAIN users :
                            users'[id] # users[id]
                            => /\ id = body.userId
                               /\ users'[id].otpSecret = body.secret
                               /\ users'[id].otpEnabled
       /\ OtpColumns(users') # OtpColumns(users)
            => adminLast'.op \in {"verify-setup", "restart"}
      ]_vars

\* a verify-setup with a valid code has replaced a secret committed before
C20_Witness ==
    /\ adminLast.op = "verify-setup"
    /\ adminLast.code = 200
    /\ users[1].otpSecret = 2
    /\ users[1].otpEnabled
    /\ pwSupplied

\* ---------------------------------------------------------------------
\* Properties of the client's prices
\* ---------------------------------------------------------------------

\* the product defines a weight-price map and the label is in it
MapHas(product, weight) ==
    /\ product.weightPrices \notin {"null", ""}
    /\ JsonParse(product.weightPrices).ok
    /\ weight \in DOMAIN JsonParse(product.weightPrices).value

\* the unit price of the specification: the value mapped to the label when
\* the map has it, the base price otherwise
UnitPrice(product, weight) ==
    IF MapHas(product, weight) THEN JsonParse(product.weightPrices).value[weight]
    ELSE TextPrice(product.price)

\* C9: the resolved unit price is the value the product's weight-price map
\* gives the label when the map contains it, and the base price when there
\* is no map, the map does not parse or the label is not in it; this is so
\* for the price on the product page and for the price kept with a cart line.
C9_ResolvedPrice ==
    /\ shown.selectedWeight # "none"
         => shown.currentPrice = UnitPrice(ProductById(shown.productId), shown.selectedWeight)
    /\ \A n \in 1 .. Len(clientCart) :
         clientCart[n].product.displayPrice
            = UnitPrice(clientCart[n].product, clientCart[n].product.selectedWeight)

\* the number a unit price stands for
Amount(price) == parseFloat(IF price.kind = "object" THEN price.price ELSE price.text)

RECURSIVE EffectiveSubtotal(_)
EffectiveSubtotal(lines) ==
    IF lines = <<>> THEN 0
    ELSE EffectiveSubtotal(SubSeq(lines, 1, Len(lines) - 1))
         + Amount(UnitPrice(lines[Len(lines)].product,
                            lines[Len(lines)].product.selectedWeight))
           * lines[Len(lines)].quantity

\* C10: the summary's subtotal is the sum over the cart lines of effective
\* unit price times quantity, a line whose selected weight is in its
\* product's weight-price map counting at the weight-specific price.
C10_SubtotalUsesWeightPrice ==
    summary.done => summary.subtotal = EffectiveSubtotal(clientCart)

\* C11: in every summary, shipping is 0 when the subtotal is above 1000 and
\* the flat fee 100 otherwise (999 and exactly 1000 pay 100, 1001 pays 0),
\* tax is 5% of the subtotal, and total = subtotal + shipping + tax
\* (tax and total in hundredths).
C11_SummaryArithmetic ==
    summary.done =>
        /\ summary.subtotal = Subtotal(clientCart)
        /\ summary.shipping = (IF summary.subtotal > 1000 THEN 0 ELSE 100)
        /\ summary.subtotal \in {999, 1000} => summary.shipping = 100
        /\ summary.subtotal = 1001 => summary.shipping = 0
        /\ summary.tax100 = 5 * summary.subtotal
        /\ summary.total100
             = 100 * summary.subtotal + 100 * summary.shipping + summary.tax100

\* a summary of a two-line cart whose subtotal is exactly the threshold
C11_Witness ==
    /\ summary.done
    /\ Len(clientCart) = 2
    /\ summary.subtotal = 1000
    /\ summary.shipping = 100
    /\ summary.total100 = 115000

\* ---------------------------------------------------------------------
\* Properties of the stored cart lines
\* ---------------------------------------------------------------------

\* C12: every cart line in storage has quantity >= 1 in every reachable
\* state, after any sequence of POST /api/cart (any body quantity, 0,
\* negative or omitted included), PUT /api/cart/:id and DELETE requests.
C12_QuantityAtLeastOne ==
    \A i \in cartItems : i.quantity >= 1

\* ---------------------------------------------------------------------
\* Properties of the catalogue routes
\* ---------------------------------------------------------------------

\* C13: product slugs are unique and immutable: in every state reachable
\* through createProduct and updateProduct no two products share a slug,
\* and every product's slug equals the slug it was created with.
C13_SlugUniqueAndImmutable ==
    /\ \A p, o \in products : p.slug = o.slug => p.id = o.id
    /\ \A p \in products : p.slug = slugAtCreation[p.id]

\* C17: every write handler validates its body against the matching insert
\* schema before touching storage: POST /api/cart, POST /api/contact,
\* POST /api/admin/products and PUT /api/admin/products/:id (for a product
\* that exists) answer 400 on a body that fails the schema, a PUT body
\* being held to the schema's types only, and such a request leaves
\* storage unchanged.
C17_WritesValidateFirst ==
    /\ [][(/\ shopLast'.op \in {"POST /api/contact", "POST /api/admin/products",
                                "PUT /api/admin/products/:id"}
           /\ shopLast'.op = "PUT /api/admin/products/:id"
                => \E p \in products : p.id = shopLast'.id
           /\ ~shopLast'.valid)
          => (shopLast'.code = 400 /\ UNCHANGED <<products, contacts>>)]_vars
    /\ [][(last'.op = "POST /api/cart" /\ last'.code = 400)
          => UNCHANGED <<cartItems, cartItemIdCounter>>]_vars

\* C18: a request that names an unknown id or slug is answered 404 and
\* changes nothing, for GET /api/products/:id, GET /api/products/slug/:slug,
\* PUT and DELETE /api/cart/:id and PUT and DELETE /api/admin/products/:id;
\* a PUT /api/cart/:id whose quantity is refused may answer 400 instead.
C18_UnknownIsNotFound ==
    /\ [][(/\ last'.op \in {"PUT /api/cart/:id", "DELETE /api/cart/:id"}
           /\ last'.unknown)
          => /\ UNCHANGED cartItems
             /\ \/ last'.code = 404
                \/ last'.op = "PUT /api/cart/:id" /\ last'.code = 400]_vars
    /\ [][(/\ shopLast'.op \in {"GET /api/products/:id", "PUT /api/admin/products/:id",
                                "DELETE /api/admin/products/:id"}
           /\ shopLast'.id # NaN
           /\ ~\E p \in products : p.id = shopLast'.id)
          => (shopLast'.code = 404 /\ UNCHANGED <<products, contacts>>)]_vars
    /\ [][(/\ shopLast'.op = "GET /api/products/slug/:slug"
           /\ ~\E p \in products : p.slug = shopLast'.slug)
          => (shopLast'.code = 404 /\ UNCHANGED <<products, contacts>>)]_vars

\* ---------------------------------------------------------------------
\* Properties of executeWithRetry
\* ---------------------------------------------------------------------

\* C14: a call of executeWithRetry always settles, it invokes the wrapped
\* operation at most maxRetries + 1 = 6 times whatever the operation
\* throws, and when an invocation succeeds the call returns that
\* invocation's result and invokes the operation no more.
C14_RetryTerminates ==
    /\ [](invocations <= 6)
    /\ []((retryPc = "settled" /\ outcome.kind = "return") => outcome.by = invocations)
    /\ [][(retryPc = "invoke" /\ outcome'.kind = "return")
            => (retryPc' = "settled" /\ outcome'.by = invocations + 1)]_vars
    /\ (retryPc = "invoke") ~> (retryPc = "settled")

\* a call that returned from its sixth invocation
C14_Witness ==
    /\ retryPc = "settled"
    /\ outcome.kind = "return"
    /\ invocations = 6
    /\ reinits = 5

\* the caught value is not an Error whose message contains one of the
\* fixed connection-error substrings
NotAConnectionError(error) ==
    \/ ~error.isError
    \/ \A part \in ConnectionErrorTexts : ~includes(error.message, part)

\* C15 as stated: whenever the wrapped operation throws an error that is
\* not a connection error, the operation has been invoked exactly once at
\* that point, no reconnect has been attempted, and that same error is
\* rethrown.
C15_OtherErrorOnFirstInvocation ==
    /\ (retryPc = "caught" /\ NotAConnectionError(lastError))
         => (invocations = 1 /\ reinits = 0)
    /\ (retryPc = "settled" /\ outcome.kind = "throw" /\ NotAConnectionError(outcome.error))
         => (outcome.error = lastError /\ invocations = 1 /\ reinits = 0)

\* C15, amended: when an invocation of the wrapped operation throws an
\* error that is not a connection error, the call's next step rethrows
\* that same error with no delay, no reconnect and no further invocation;
\* when it was the first invocation that threw it, the operation has been
\* invoked exactly once and no reconnect has been attempted.  Earlier
\* invocations that failed with connection errors have been retried.
C15_OtherErrorIsRethrownAtOnce ==
    /\ [][(retryPc = "caught" /\ NotAConnectionError(lastError))
            => /\ retryPc' = "settled"
               /\ outcome' = [kind |-> "throw", error |-> lastError]
               /\ lastError.by = invocations
               /\ UNCHANGED <<invocations, reinits, waited>>]_vars
    /\ []((retryPc = "settled" /\ outcome.kind = "throw"
              /\ NotAConnectionError(outcome.error))
            => /\ outcome.error.by = invocations
               /\ reinits = invocations - 1
               /\ outcome.error.by = 1 => (invocations = 1 /\ reinits = 0))

\* a value that is no Error, thrown by the second invocation, was rethrown
C15_Witness ==
    /\ retryPc = "settled"
    /\ outcome.kind = "throw"
    /\ ~outcome.error.isError
    /\ outcome.error.message = <<"timeout">>
    /\ outcome.error.by = 2
    /\ invocations = 2

\* C16: when every attempt of the wrapped operation fails with a
\* connection error, the error executeWithRetry rethrows on exhaustion is
\* the error thrown by the first invocation of the operation.
C16_RethrowsFirstError ==
    (retryPc = "settled" /\ outcome.kind = "throw" /\ ~NotAConnectionError(outcome.error))
    => outcome.error.by = 1

\* ---------------------------------------------------------------------
\* getCartItemWithProduct
\* ---------------------------------------------------------------------
\* a row's metaData matches the metaData of a call: the texts are equal
\* (both absent included), or both parse and name the same selectedWeight
MetaMatches(rowMeta, m) ==
    \/ rowMeta = m
    \/ /\ rowMeta # NoMeta
       /\ m # NoMeta
       /\ SelectedWeightOf(rowMeta) # "SyntaxError"
       /\ SelectedWeightOf(m) # "SyntaxError"
       /\ SelectedWeightOf(rowMeta) = SelectedWeightOf(m)

\* C21: getCartItemWithProduct(S, P, m) returns at most one row; a row it
\* returns is a row of session S and product P whose metaData matches m
\* (equal texts, the same parsed selectedWeight, or absent on both sides);
\* it returns no row when no row of (S, P) matches m.
C21_LookupReturnsAMatch ==
    last.op = "getCartItemWithProduct"
    => /\ last.row # NoItem
            => /\ last.row \in RowsOf(last.sessionId, last.productId)
               /\ MetaMatches(last.row.metaData, last.metaData)
       /\ (\A i \in RowsOf(last.sessionId, last.productId) :
               ~MetaMatches(i.metaData, last.metaData))
            => last.row = NoItem

C23_QueriesPerCall == queries <= maxRetries + 1

\* C24: a call of getCartItems or getCartItemWithProduct whose query fails
\* does not return an empty list or "no line" as if the query had succeeded:
\* what such a call returns, it returns from a query that gave rows.
C24_FailedQueryIsNotAnEmptyCart ==
    /\ CatchesItsQuery(method)
    /\ retryPc = "settled"
    /\ outcome.kind = "return"
    => /\ outcome.value = "rows"
       /\ ~swallowed

\* ---------------------------------------------------------------------
\* Product deletion and the cart
\* ---------------------------------------------------------------------
\* the lines of a fetched cart that came with a product
PricedLines == SelectSeq(clientCart, LAMBDA line : Has(line, "product"))

\* C25: a DELETE /api/admin/products/:id that succeeds leaves every cart
\* line in storage as it was, the lines of the deleted product included;
\* GET /api/cart still returns a session's lines, those of a product that
\* is gone without a product attached; and calculateCartSummary counts a
\* line without a product as price 0.
C25_DeleteDoesNotCascade ==
    [][/\ (shopLast'.op = "DELETE /api/admin/products/:id" /\ products' # products)
           => /\ shopLast'.code = 204
              /\ cartItems' = cartItems
       /\ (last'.op = "GET /api/cart" /\ clientCart' # clientCart)
           => /\ {[f \in DOMAIN clientCart'[n] \ {"product"} |-> clientCart'[n][f]] :
                     n \in 1 .. Len(clientCart')}
                 \in {getCartItems(s) : s \in SessionIds}
              /\ \A n \in 1 .. Len(clientCart') :
                    Has(clientCart'[n], "product")
                    <=> \E p \in products : p.id = clientCart'[n].productId
       /\ summary'.done
           => summary'.subtotal = Subtotal(PricedLines)'
      ]_vars

\* the checkout summary of a fetched cart that holds a line of a deleted
\* product next to a line of a product on sale
C25_Witness ==
    /\ summary.done
    /\ summary.subtotal > 0
    /\ \E n \in 1 .. Len(clientCart) :
          /\ ~Has(clientCart[n], "product")
          /\ clientCart[n].quantity >= 1
          /\ \A p \in products : p.id # clientCart[n].productId
          /\ clientCart[n] \in cartItems
    /\ shopLast.op = "DELETE /api/admin/products/:id"
    /\ shopLast.code = 204

\* ---------------------------------------------------------------------
\* The Dashboard's bulk actions
\* ---------------------------------------------------------------------
\* C26: whenever at least one request of a bulk action fails, by a network
\* error or by an answer that is not 2xx, the toast shown is the error
\* toast, not the success toast, and the Dashboard's product list is left
\* as it was.
C26_BulkFailureIsReported ==
    [][(/\ toast' # toast
        /\ \E id \in DOMAIN toast'.answers : toast'.answers[id] \notin {200, 204})
       => /\ toast'.title = "Error"
          /\ dashProducts' = dashProducts
      ]_vars

\* ---------------------------------------------------------------------
\* Concurrent additions to a line that exists
\* ---------------------------------------------------------------------
\* C27: no increment is lost on an existing line: the write of a POST
\* /api/cart that found the line adds the request's quantity to the
\* quantity the line has when the write is made, so that after two
\* concurrent requests with q1 and q2 on a line of quantity q the line has
\* q + q1 + q2, however their reads and writes interleave.
C27_NoLostIncrement ==
    [][\A r \in RequestSlots :
         (reqs[r].phase = "read" /\ reqs'[r].phase = "idle" /\ reqs[r].existing.id # 0)
         => \A i \in cartItems :
               i.id = reqs[r].existing.id
               => \E j \in cartItems' :
                     /\ j.id = i.id
                     /\ j.quantity = i.quantity + OrOne(reqs[r].data, "quantity")
      ]_vars

\* ---------------------------------------------------------------------
\* Whose lines PUT and DELETE /api/cart/:id touch
\* ---------------------------------------------------------------------
\* C28: a PUT /api/cart/:id or DELETE /api/cart/:id request that carries
\* session id A, or none, changes and removes no line of a session other
\* than A.  Neither handler reads the session-id header, so a step of
\* either is the step of the request with every header A.
C28_OnlyOwnLines ==
    [][last'.op \in {"PUT /api/cart/:id", "DELETE /api/cart/:id"}
       => \A A \in SessionHeaders :
             \A i \in cartItems : i.sessionId # A => i \in cartItems'
      ]_vars

\* C29: with one browser and no other writer on its session, the client's
\* cartItems holds exactly one entry per server cart line of the session, with
\* the line's id and quantity, and no two entries share an id.
C29_ClientMirrorsServer ==
    /\ \A i \in getCartItems(savedSessionId) :
          \E n \in 1 .. Len(clientCart) :
              clientCart[n].id = i.id /\ clientCart[n].quantity = i.quantity
    /\ \A n \in 1 .. Len(clientCart) :
          \E i \in getCartItems(savedSessionId) :
              clientCart[n].id = i.id /\ clientCart[n].quantity = i.quantity
    /\ \A n, k \in 1 .. Len(clientCart) : clientCart[n].id = clientCart[k].id => n = k

\* the login requests the claim names: a field is missing, the username is
\* unknown, the user's id is not 1, or the password is wrong
LoginFails(body) ==
    \/ body.username = "" \/ body.password = ""
    \/ getUserByUsername(body.username) = 0
    \/ getUserByUsername(body.username) # 1
    \/ users[getUserByUsername(body.username)].password # body.password

\* the verify-otp requests the claim names: a field is missing, the user is
\* unknown, or the token is not valid
VerifyOtpFails(body) ==
    \/ body.userId = 0 \/ body.token = 0
    \/ body.userId \notin DOMAIN users
    \/ ~verifyOtp(body.userId, body.token)

\* C30: the admin session table changes only on success: a login with a
\* missing field, an unknown username, a user whose id is not 1 or a wrong
\* password, and a verify-otp with a missing field, an unknown user or an
\* invalid token, leave the table as it was; every entry of the table has
\* isAuthenticated true; and a logout removes the presented token and nothing
\* else, every other accepted session staying accepted.
C30_TableChangesOnlyOnSuccess ==
    [][/\ adminLast'.op = "login"
            => \A body \in LoginBodies :
                  (LoginFails(body) /\ AdminLogin(body))
                  => (adminSessions' = adminSessions /\ adminLast'.code \in {400, 401})
       /\ adminLast'.op = "verify-otp"
            => \A body \in VerifyOtpBodies :
                  (VerifyOtpFails(body) /\ AdminVerifyOtp(body))
                  => (adminSessions' = adminSessions
                      /\ adminLast'.code \in {400, 401, 404})
       /\ (adminLast'.op \in {"login", "verify-otp"} /\ adminLast'.code # 200)
            => adminSessions' = adminSessions
       /\ \A s \in adminSessions' : s.isAuthenticated
       /\ adminLast'.op = "logout"
            => /\ adminSessions' = {s \in adminSessions : s.token # adminLast'.sessionId}
               /\ \A t \in 1 .. MaxTokens :
                     (t # adminLast'.sessionId /\ Accepted(t)) => Accepted(t)'
      ]_vars

\* a login with a wrong password has been refused while a session is open
C30_Witness ==
    /\ adminLast.op = "login"
    /\ adminLast.code = 401
    /\ Accepted(1)
    /\ Cardinality(adminSessions) = 1

====
